---- MODULE Spec2Model ----
(***************************************************************************)
(* State-machine model of the SkillTree editor component (SkillCanvas).    *)
(*                                                                         *)
(* One action is one event handler run to completion, followed by the      *)
(* React render it causes.  Handlers that are re-created on every render   *)
(* read the current state; the window keydown listener is installed by an  *)
(* effect whose dependencies are [renameOpen, selectedNodeId,              *)
(* selectedEdgeId], so the `world` it reads (keyWorld) is the one of the   *)
(* last render in which one of those three changed.                        *)
(***************************************************************************)
EXTENDS Integers, Sequences, FiniteSets, TLC

(* ------------------------------------------------------------------ *)
(* Bounds of the model                                                  *)
(* ------------------------------------------------------------------ *)
\* number of values uid() hands out for nodes and edges in one behaviour
MaxUid == 1
\* commits are explored while the undo stack is shorter than this (Spec only)
MaxHist == 2
\* undo and redo entries held together in SpecKeys
MaxHistKeys == 1
\* largest canvas-relative pointer coordinate of a placement click
MaxClick == 0
\* pan and node coordinates are explored up to this value
MaxCoord == 1
\* saves are explored while the clock is at most this
MaxClock == 4
\* most edges of a document offered to deserialize
MaxDocEdges == 3
\* zooms and pans are explored while their denominators are at most this
MaxDen == 100
\* projects made by New and by the first run in one behaviour
MaxProjects == 2
\* values uid() hands out in one behaviour of the editor without a store
MaxEdit == 1
\* nodes placed in one behaviour of SpecPlace
MaxPlaced == 2
\* pointer-moves of one drag that are counted
MaxMoves == 2
\* node coordinates are explored up to this value in SpecSnap
MaxSnapCoord == 100

(* ------------------------------------------------------------------ *)
(* Program constants                                                    *)
(* ------------------------------------------------------------------ *)
HIST_LIMIT == 100
gridSize == 40

\* null / no id.  Ids handed out by uid() are 1, 2, ...
Null == 0

\* lastSavedAt === null.  Timestamps are 1, 2, ...
NoTime == 0

\* the empty string, also what lsGet returns for a missing name
NoName == <<>>

VARIABLES
  world,             \* useState<WorldState>
  connectingFromId,  \* useState: source node of a pending connection
  selectedNodeId,
  selectedEdgeId,
  snap,
  undoStack,
  redoStack,
  renameOpen,        \* the settings form is shown
  editingNodeId,
  draggingBg,        \* draggingBgRef.current
  keyWorld,          \* `world` as closed over by the installed keydown listener
  nextUid,           \* next value of uid()
  storage,           \* window.localStorage: documents, project index, last-opened name
  projectName,
  projectId,
  lastSavedAt,
  saving,
  projectOptions,
  autosave,          \* the pending debounced save: <<>> or <<its closure>>
  timers,            \* pending setTimeout(() => saveProject(name), 0) callbacks
  importing,         \* an import waiting for file.text(): <<>> or <<file and closure>>
  app,               \* "boot": rendered, effects not yet run; "live"; "crashed"
  clock,             \* new Date()
  last,              \* history: the last handler that ran and what it did
  ur                 \* history: the run of undos and redos in progress

\* project state that the handlers of the canvas never write
storeVars == <<storage, projectName, projectId, lastSavedAt, projectOptions,
               timers, importing, app, clock>>

vars == <<world, connectingFromId, selectedNodeId, selectedEdgeId, snap,
          undoStack, redoStack, renameOpen, editingNodeId, draggingBg,
          keyWorld, nextUid, storage, projectName, projectId, lastSavedAt,
          saving, projectOptions, autosave, timers, importing, app, clock,
          last, ur>>

(* ------------------------------------------------------------------ *)
(* Sequences                                                            *)
(* ------------------------------------------------------------------ *)
Map(s, f(_)) == [i \in 1..Len(s) |-> f(s[i])]

Filter(s, keep(_)) == SelectSeq(s, keep)

Range(s) == {s[i] : i \in 1..Len(s)}

NodeIds(w) == {w.nodes[i].id : i \in 1..Len(w.nodes)}

(* ------------------------------------------------------------------ *)
(* Numbers                                                              *)
(* ------------------------------------------------------------------ *)
\* Coordinates, pans and zooms are JavaScript numbers.  They are held as
\* exact fractions [n, d] in lowest terms with d > 0; ids, versions and
\* timestamps are plain integers.
RECURSIVE gcd(_, _)
gcd(a, b) == IF b = 0 THEN a ELSE gcd(b, a % b)

abs(a) == IF a < 0 THEN -a ELSE a

Frac(n, d) ==
  LET g == gcd(abs(n), abs(d))
      s == IF d < 0 THEN -1 ELSE 1
  IN  [n |-> (s * n) \div g, d |-> (s * d) \div g]

Num(k) == [n |-> k, d |-> 1]

add(a, b) == Frac(a.n * b.d + b.n * a.d, a.d * b.d)

sub(a, b) == Frac(a.n * b.d - b.n * a.d, a.d * b.d)

mul(a, b) == Frac(a.n * b.n, a.d * b.d)

\* a / b for b other than 0
div(a, b) == Frac(a.n * b.d, a.d * b.n)

leq(a, b) == a.n * b.d <= b.n * a.d

\* Math.min, Math.max
min(a, b) == IF leq(a, b) THEN a ELSE b

max(a, b) == IF leq(a, b) THEN b ELSE a

\* Math.round: the nearest integer, halves rounded up
round(a) == (2 * a.n + a.d) \div (2 * a.d)

(* ------------------------------------------------------------------ *)
(* World state                                                          *)
(* ------------------------------------------------------------------ *)
EmptyWorld ==
  [panX |-> Num(0), panY |-> Num(0), zoom |-> Num(1), nodes |-> <<>>, edges |-> <<>>,
   mode |-> "idle", draggingNodeId |-> Null]

\* JSON.parse(JSON.stringify(w)): every JSON-representable field is copied
cloneNode(n) ==
  [id |-> n.id, x |-> n.x, y |-> n.y, name |-> n.name, color |-> n.color,
   size |-> n.size]

cloneEdge(e) == [id |-> e.id, fromId |-> e.fromId, toId |-> e.toId]

cloneWorld(w) ==
  [panX |-> w.panX, panY |-> w.panY, zoom |-> w.zoom,
   nodes |-> Map(w.nodes, cloneNode), edges |-> Map(w.edges, cloneEdge),
   mode |-> w.mode, draggingNodeId |-> w.draggingNodeId]

ZOOM_MIN == Frac(1, 4)
ZOOM_MAX == Num(2)
ZOOM_STEP == Frac(11, 10)

\* a snap that leaves the value as it is (SnapRounds tells it apart)
snapKeep(v, step) == v

\* Math.round(v / step) * step
snapTo(v, step) == Num(round(div(v, Num(step))) * step)

\* const clamp = Math.max(min, Math.min(max, n))
clamp(n, lo, hi) == max(lo, min(hi, n))

screenToWorld(sx, sy) == [x |-> sub(sx, world.panX), y |-> sub(sy, world.panY)]

(* ------------------------------------------------------------------ *)
(* History                                                              *)
(* ------------------------------------------------------------------ *)
\* a history that is never cut (UndoStackBounded tells it apart)
histKeepAll(next) == next

\* next.length > HIST_LIMIT ? next.slice(next.length - HIST_LIMIT) : next
histTrim(next) ==
  IF Len(next) > HIST_LIMIT
    THEN SubSeq(next, Len(next) - HIST_LIMIT + 1, Len(next))
    ELSE next

\* a commit that leaves the redo stack alone (RedoClearedByCommit tells it apart)
commitKeepRedo(w) ==
  /\ undoStack' = histTrim(Append(undoStack, cloneWorld(w)))
  /\ UNCHANGED redoStack

\* a commit that pushes nothing (DragCommitsOnce tells it apart)
commitSkipped(w) == UNCHANGED <<undoStack, redoStack>>

\* commit() of a render whose `world` is w
commit(w) ==
  /\ undoStack' = histTrim(Append(undoStack, cloneWorld(w)))
  /\ redoStack' = <<>>

commitOut == IF redoStack # <<>> THEN "commit-cleared-redo" ELSE "commit"

\* an undo that drops the selection, the connect source and the form even
\* when there is nothing to undo (EmptyUndoRedoNoop tells it apart)
undoResetting(w) ==
  /\ selectedNodeId' = Null
  /\ selectedEdgeId' = Null
  /\ connectingFromId' = Null
  /\ renameOpen' = FALSE
  /\ IF undoStack = <<>>
       THEN UNCHANGED <<world, undoStack, redoStack>>
       ELSE /\ redoStack' = Append(redoStack, cloneWorld(w))
            /\ world' = undoStack[Len(undoStack)]
            /\ undoStack' = SubSeq(undoStack, 1, Len(undoStack) - 1)

\* undo() of a render whose `world` is w
undo(w) ==
  IF undoStack = <<>>
    THEN UNCHANGED <<world, undoStack, redoStack, connectingFromId,
                     selectedNodeId, selectedEdgeId, renameOpen>>
    ELSE /\ redoStack' = Append(redoStack, cloneWorld(w))
         /\ world' = undoStack[Len(undoStack)]
         /\ selectedNodeId' = Null
         /\ selectedEdgeId' = Null
         /\ connectingFromId' = Null
         /\ renameOpen' = FALSE
         /\ undoStack' = SubSeq(undoStack, 1, Len(undoStack) - 1)

\* redo() of a render whose `world` is w
redo(w) ==
  IF redoStack = <<>>
    THEN UNCHANGED <<world, undoStack, redoStack, connectingFromId,
                     selectedNodeId, selectedEdgeId, renameOpen>>
    ELSE /\ undoStack' = Append(undoStack, cloneWorld(w))
         /\ world' = redoStack[Len(redoStack)]
         /\ selectedNodeId' = Null
         /\ selectedEdgeId' = Null
         /\ connectingFromId' = Null
         /\ renameOpen' = FALSE
         /\ redoStack' = SubSeq(redoStack, 1, Len(redoStack) - 1)

(* ------------------------------------------------------------------ *)
(* Graph updates (the setWorld updaters)                                *)
(* ------------------------------------------------------------------ *)
newNode(id, px, py) ==
  [id |-> id, x |-> px, y |-> py, name |-> "New Node", color |-> "sky",
   size |-> "small"]

\* a node removal that forgets the incident edges (DeleteNodeFrame tells it apart)
removeNodeKeepEdges(w, id) ==
  [w EXCEPT !.nodes = Filter(w.nodes, LAMBDA n : n.id # id)]

\* nodes.filter(n => n.id !== id), edges.filter(e => e.fromId !== id && e.toId !== id)
removeNode(w, id) ==
  [w EXCEPT !.nodes = Filter(w.nodes, LAMBDA n : n.id # id),
            !.edges = Filter(w.edges, LAMBDA e : e.fromId # id /\ e.toId # id)]

\* edges.filter(ed => ed.id !== id)
removeEdge(w, id) ==
  [w EXCEPT !.edges = Filter(w.edges, LAMBDA e : e.id # id)]

\* an edge test that looks in one direction only (ConnectRejected tells it apart)
edgeExistsDirected(w, a, b) ==
  \E i \in 1..Len(w.edges) : w.edges[i].fromId = a /\ w.edges[i].toId = b

\* world.edges.some(ed => (from -> to) || (to -> from))
edgeExists(w, a, b) ==
  \E i \in 1..Len(w.edges) :
     \/ (w.edges[i].fromId = a /\ w.edges[i].toId = b)
     \/ (w.edges[i].fromId = b /\ w.edges[i].toId = a)

addEdge(w, id, a, b) ==
  [w EXCEPT !.edges = Append(w.edges, [id |-> id, fromId |-> a, toId |-> b])]

\* String.prototype.trim on the labels of the model
trim(s) == IF s = " " THEN "" ELSE s

\* the label, colour and size typed into the settings form
FormInputs ==
  { [label |-> " ", color |-> "sky", size |-> "small"],
    [label |-> "Skill", color |-> "rose", size |-> "large"] }

\* nodes.map(nd => nd.id === id ? {...nd, name: label.trim() || nd.name, color, size} : nd)
updateNode(w, id, inp) ==
  [w EXCEPT !.nodes =
     [i \in 1..Len(w.nodes) |->
        IF w.nodes[i].id = id
          THEN [w.nodes[i] EXCEPT
                  !.name = IF trim(inp.label) # "" THEN trim(inp.label) ELSE @,
                  !.color = inp.color, !.size = inp.size]
          ELSE w.nodes[i]]]

moveNode(w, id, dx, dy) ==
  [w EXCEPT !.nodes =
     [i \in 1..Len(w.nodes) |->
        IF w.nodes[i].id = id
          THEN [w.nodes[i] EXCEPT !.x = add(@, dx), !.y = add(@, dy)]
          ELSE w.nodes[i]]]

snapNode(w, id) ==
  [w EXCEPT !.nodes =
     [i \in 1..Len(w.nodes) |->
        IF w.nodes[i].id = id
          THEN [w.nodes[i] EXCEPT !.x = snapTo(@, gridSize), !.y = snapTo(@, gridSize)]
          ELSE w.nodes[i]]]

(* ------------------------------------------------------------------ *)
(* Render after a handler                                               *)
(* ------------------------------------------------------------------ *)
\* graph and transform of a world: everything but mode and gesture
GT(w) ==
  [panX |-> w.panX, panY |-> w.panY, zoom |-> w.zoom, nodes |-> w.nodes,
   edges |-> w.edges]

UrOff == [phase |-> "off", n |-> 0, base |-> GT(EmptyWorld)]

\* the position of node id in w
PosOf(w, id) ==
  LET n == w.nodes[CHOOSE i \in 1..Len(w.nodes) : w.nodes[i].id = id]
  IN  <<n.x, n.y>>

NoDrag == [node |-> Null, at |-> <<>>, moves |-> 0]

\* last.drag follows one drag gesture, from the pointer-down on a node over
\* the pointer-moves that follow it directly to the pointer-up: the node,
\* its position at pointer-down, and the number of pointer-moves (counted
\* up to MaxMoves)
DragNext(op, node) ==
  CASE op = "onNodePointerDown" ->
         [node |-> node, at |-> <<PosOf(world, node)>>, moves |-> 0]
    [] op = "onNodePointerMove" ->
         IF last.drag.node # Null
           THEN [last.drag EXCEPT !.moves = IF @ < MaxMoves THEN @ + 1 ELSE @]
           ELSE NoDrag
    [] op = "onNodePointerUp" ->
         IF last.drag.node = node THEN last.drag ELSE NoDrag
    [] OTHER -> NoDrag

\* ur counts the undos of the current run and then the redos that follow
\* them directly; base is the graph and transform before the first undo.
\* Runs of more than MaxHist undos are not followed.
UrNext(out) ==
  CASE out = "undo" ->
         IF ur.phase = "undo"
           THEN IF ur.n < MaxHist THEN [ur EXCEPT !.n = @ + 1] ELSE UrOff
           ELSE [phase |-> "undo", n |-> 1, base |-> GT(world)]
    [] out = "redo" ->
         IF ur.phase \in {"undo", "redo"} /\ ur.n > 0
           THEN [ur EXCEPT !.phase = "redo", !.n = @ - 1]
           ELSE UrOff
    [] out = "noop" -> ur
    [] OTHER -> UrOff

\* what a handler reports in last.out when it has called setWorld;
\* "mounted" is the first run of the effects, with nothing loaded;
\* "partial" is a deserialize that threw after its setWorld
SetWorldOuts ==
  {"commit", "commit-cleared-redo", "undo", "redo", "mode", "move", "grab",
   "idle", "apply", "loaded", "fresh", "imported", "zoom", "zoom-clamped",
   "mounted", "partial"}

\* the values a render closes over for serialize() and saveProject()
Closure(w, name, id, savedAt) ==
  [world |-> w, projectName |-> name, projectId |-> id, lastSavedAt |-> savedAt]

\* an autosave effect that leaves a pending save in place and arms a new
\* one only when none is pending (SavedWhenQuiet tells it apart)
throttled(ran, op, c) ==
  IF ran /\ autosave = <<>> THEN << c >>
  ELSE IF op = "AutosaveFire" THEN <<>> ELSE autosave

\* the pending debounced save after the effects of a render with closure c:
\* when the autosave effect ran, its cleanup has cleared the pending timeout
\* and a new one is armed; a timeout that has fired is pending no more
debounced(ran, op, c) ==
  IF ran THEN << c >>
  ELSE IF op = "AutosaveFire" THEN <<>> ELSE autosave

\* The render after a handler, and the effects that follow it.
\* The keyboard effect re-installs its listener, closing over the new
\* render's world, exactly when one of its dependencies changed.
\* The autosave effect (dependencies [world, projectName]) sets saving and
\* re-arms the debounced save with the new render's closure; a saveProject
\* in the handler has set saving to false before.
\* node and downs record the pointer-downs made in a row on one node; err
\* is the exception the handler let escape.
Effects(op, out, err, node, downs) ==
  LET ran == out \in SetWorldOuts \/ projectName' # projectName
  IN  /\ keyWorld' =
           IF <<renameOpen', selectedNodeId', selectedEdgeId'>>
                # <<renameOpen, selectedNodeId, selectedEdgeId>>
             THEN world' ELSE keyWorld
      /\ autosave' =
           debounced(ran, op, Closure(world', projectName', projectId', lastSavedAt'))
      /\ saving' = IF ran THEN TRUE ELSE IF out = "saved" THEN FALSE ELSE saving
      /\ last' = [op |-> op, out |-> out, err |-> err, node |-> node, downs |-> downs,
                  drag |-> DragNext(op, node)]
      /\ ur' = UrNext(out)

\* a handler of the canvas, the toolbar's graph buttons, the keyboard or
\* the settings form: it writes no project state and lets nothing escape
RenderedOn(op, out, node, downs) ==
  /\ UNCHANGED storeVars
  /\ Effects(op, out, "", node, downs)

Rendered(op, out) == RenderedOn(op, out, Null, 0)

\* pointer-downs made in a row on node n, this one included
DownsOn(n) == IF last.node = n THEN (IF last.downs >= 2 THEN 2 ELSE last.downs + 1) ELSE 1

(* ------------------------------------------------------------------ *)
(* Inputs                                                               *)
(* ------------------------------------------------------------------ *)
\* canvas-relative points of a pointer-down on the background
ClickPoints == {<<Num(c), Num(c)>> : c \in 0..MaxClick}

\* pointer displacement between two pointer-move events
Deltas == {<<Num(1), Num(1)>>}

\* pointer displacements while a node is dragged
DragDeltas == {<<Num(1), Num(1)>>, <<Num(-1), Num(-1)>>}

\* a placement click and a pointer displacement that are not on the grid:
\* 20 / 40 is a half, 59 / 40 rounds down, and the moves lead to negative
\* coordinates and to other halves
SnapPoints == {<<Num(20), Num(59)>>}

SnapDeltas == {<<Num(-30), Num(25)>>}

\* canvas-relative point of the cursor over the canvas
WheelPoints == {<<Num(3), Num(1)>>}

\* e.deltaY > 0 ? 1 : -1
WheelDirs == {1, -1}

\* a project stored by an earlier session: three nodes, pairwise connected
SampleWorld ==
  [panX |-> Num(0), panY |-> Num(0), zoom |-> Num(1),
   nodes |-> << [id |-> 101, x |-> Num(0), y |-> Num(0), name |-> "A", color |-> "sky", size |-> "small"],
                [id |-> 102, x |-> Num(1), y |-> Num(0), name |-> "B", color |-> "sky", size |-> "small"],
                [id |-> 103, x |-> Num(0), y |-> Num(1), name |-> "C", color |-> "sky", size |-> "small"] >>,
   edges |-> << [id |-> 104, fromId |-> 101, toId |-> 102],
                [id |-> 105, fromId |-> 102, toId |-> 103],
                [id |-> 106, fromId |-> 103, toId |-> 101] >>,
   mode |-> "idle", draggingNodeId |-> Null]

\* a smaller stored project: two nodes joined by one edge
PairWorld ==
  [panX |-> Num(0), panY |-> Num(0), zoom |-> Num(1),
   nodes |-> << [id |-> 101, x |-> Num(0), y |-> Num(0), name |-> "A", color |-> "sky", size |-> "small"],
                [id |-> 102, x |-> Num(1), y |-> Num(0), name |-> "B", color |-> "sky", size |-> "small"] >>,
   edges |-> << [id |-> 104, fromId |-> 101, toId |-> 102] >>,
   mode |-> "idle", draggingNodeId |-> Null]

\* the same project stored with a panned view
PannedWorld == [PairWorld EXCEPT !.panX = Num(1), !.panY = Num(1)]

(* ------------------------------------------------------------------ *)
(* Toolbar                                                              *)
(* ------------------------------------------------------------------ *)
\* The settings form is a full-screen overlay: while it is shown no pointer
\* event reaches the toolbar or the canvas.
PointerReachesCanvas == app = "live" /\ ~renameOpen

ToggleAddNode ==
  /\ PointerReachesCanvas
  /\ world' = [world EXCEPT !.mode = IF @ = "add-node" THEN "idle" ELSE "add-node"]
  /\ UNCHANGED <<connectingFromId, selectedNodeId, selectedEdgeId, snap, undoStack,
                 redoStack, renameOpen, editingNodeId, draggingBg, nextUid>>
  /\ Rendered("ToggleAddNode", "mode")

ResetView ==
  /\ PointerReachesCanvas
  /\ commit(world)
  /\ world' = [world EXCEPT !.panX = Num(0), !.panY = Num(0), !.zoom = Num(1)]
  /\ UNCHANGED <<connectingFromId, selectedNodeId, selectedEdgeId, snap,
                 renameOpen, editingNodeId, draggingBg, nextUid>>
  /\ Rendered("ResetView", commitOut)

ToggleConnect ==
  /\ PointerReachesCanvas
  /\ world' = [world EXCEPT !.mode = IF @ = "connect" THEN "idle" ELSE "connect"]
  /\ connectingFromId' = Null
  /\ UNCHANGED <<selectedNodeId, selectedEdgeId, snap, undoStack,
                 redoStack, renameOpen, editingNodeId, draggingBg, nextUid>>
  /\ Rendered("ToggleConnect", "mode")

ToggleSnap ==
  /\ PointerReachesCanvas
  /\ snap' = ~snap
  /\ UNCHANGED <<world, connectingFromId, selectedNodeId, selectedEdgeId, undoStack,
                 redoStack, renameOpen, editingNodeId, draggingBg, nextUid>>
  /\ Rendered("ToggleSnap", "")

\* the Undo button is disabled while the undo stack is empty
UndoButton ==
  /\ PointerReachesCanvas
  /\ undoStack # <<>>
  /\ undo(world)
  /\ UNCHANGED <<snap, editingNodeId, draggingBg, nextUid>>
  /\ Rendered("UndoButton", "undo")

RedoButton ==
  /\ PointerReachesCanvas
  /\ redoStack # <<>>
  /\ redo(world)
  /\ UNCHANGED <<snap, editingNodeId, draggingBg, nextUid>>
  /\ Rendered("RedoButton", "redo")

(* ------------------------------------------------------------------ *)
(* Background (grid layer)                                              *)
(* ------------------------------------------------------------------ *)
\* primary pointer-down on empty canvas: place a node, or start a pan
onBgPointerDown(p) ==
  /\ PointerReachesCanvas
  /\ world.mode # "connect"
  /\ IF world.mode = "add-node"
       THEN LET at == screenToWorld(p[1], p[2])
                px == IF snap THEN snapTo(at.x, gridSize) ELSE at.x
                py == IF snap THEN snapTo(at.y, gridSize) ELSE at.y
            IN  /\ commit(world)
                /\ world' = [world EXCEPT !.nodes = Append(@, newNode(nextUid, px, py))]
                /\ nextUid' = nextUid + 1
                /\ editingNodeId' = nextUid
                /\ renameOpen' = TRUE
                /\ UNCHANGED <<connectingFromId, selectedNodeId, selectedEdgeId,
                               snap, draggingBg>>
                /\ Rendered("onBgPointerDown", commitOut)
       ELSE /\ selectedNodeId' = Null
            /\ selectedEdgeId' = Null
            /\ draggingBg' = TRUE
            /\ UNCHANGED <<world, connectingFromId, snap, undoStack, redoStack,
                           renameOpen, editingNodeId, nextUid>>
            /\ Rendered("onBgPointerDown", "pan")

onBgPointerMove(d) ==
  /\ PointerReachesCanvas
  /\ draggingBg
  /\ world' = [world EXCEPT !.panX = add(@, d[1]), !.panY = add(@, d[2])]
  /\ UNCHANGED <<connectingFromId, selectedNodeId, selectedEdgeId, snap, undoStack,
                 redoStack, renameOpen, editingNodeId, draggingBg, nextUid>>
  /\ Rendered("onBgPointerMove", "move")

onBgPointerUp ==
  /\ PointerReachesCanvas
  /\ draggingBg
  /\ draggingBg' = FALSE
  /\ UNCHANGED <<world, connectingFromId, selectedNodeId, selectedEdgeId, snap,
                 undoStack, redoStack, renameOpen, editingNodeId, nextUid>>
  /\ Rendered("onBgPointerUp", "")

\* a new pan that forgets the new zoom (AnchorKept tells it apart)
panUnscaled(s, w, newZoom) == sub(s, w)

\* sx - wx * newZoom
panAnchored(s, w, newZoom) == sub(s, mul(w, newZoom))

\* ctrl/cmd + wheel over the canvas at canvas-relative point p;
\* direction is 1 for wheel down (zoom out) and -1 for wheel up
onBgWheel(p, direction) ==
  /\ PointerReachesCanvas
  /\ UNCHANGED <<connectingFromId, selectedNodeId, selectedEdgeId, snap, undoStack,
                 redoStack, renameOpen, editingNodeId, draggingBg, nextUid>>
  /\ LET wx == div(sub(p[1], world.panX), world.zoom)
         wy == div(sub(p[2], world.panY), world.zoom)
         factor == IF direction > 0 THEN div(Num(1), ZOOM_STEP) ELSE ZOOM_STEP
         newZoom == clamp(mul(world.zoom, factor), ZOOM_MIN, ZOOM_MAX)
     IN  /\ world' = [world EXCEPT !.zoom = newZoom,
                                   !.panX = panAnchored(p[1], wx, newZoom),
                                   !.panY = panAnchored(p[2], wy, newZoom)]
         /\ Rendered("onBgWheel",
                     IF newZoom = mul(world.zoom, factor) THEN "zoom" ELSE "zoom-clamped")

(* ------------------------------------------------------------------ *)
(* Edges and nodes of the world layer                                   *)
(* ------------------------------------------------------------------ *)
\* an edge is drawn only when both its end nodes are found
RenderedEdges ==
  {e \in Range(world.edges) : e.fromId \in NodeIds(world) /\ e.toId \in NodeIds(world)}

edgeOnPointerDown(e) ==
  /\ PointerReachesCanvas
  /\ world.mode # "connect"
  /\ selectedEdgeId' = e.id
  /\ selectedNodeId' = Null
  /\ UNCHANGED <<world, connectingFromId, snap, undoStack, redoStack, renameOpen,
                 editingNodeId, draggingBg, nextUid>>
  /\ Rendered("edgeOnPointerDown", "")

\* pointer-down on node n in connect mode
connectClick(n) ==
  /\ UNCHANGED <<selectedNodeId, selectedEdgeId>>
  /\ IF connectingFromId = Null
       THEN /\ connectingFromId' = n
            /\ UNCHANGED <<world, undoStack, redoStack, nextUid>>
            /\ RenderedOn("connectClick", "source", n, DownsOn(n))
       ELSE IF connectingFromId # n
         THEN IF ~edgeExists(world, connectingFromId, n)
                THEN /\ commit(world)
                     /\ world' = addEdge(world, nextUid, connectingFromId, n)
                     /\ nextUid' = nextUid + 1
                     /\ connectingFromId' = Null
                     /\ RenderedOn("connectClick", commitOut, n, DownsOn(n))
                ELSE /\ connectingFromId' = Null
                     /\ UNCHANGED <<world, undoStack, redoStack, nextUid>>
                     /\ RenderedOn("connectClick", "duplicate", n, DownsOn(n))
         ELSE /\ connectingFromId' = Null
              /\ UNCHANGED <<world, undoStack, redoStack, nextUid>>
              /\ RenderedOn("connectClick", "same", n, DownsOn(n))

\* setSelectedNodeId(id); setSelectedEdgeId(null); onNodePointerDown(id)(e)
onNodePointerDown(n) ==
  /\ selectedNodeId' = n
  /\ selectedEdgeId' = Null
  /\ world' = [world EXCEPT !.mode = "drag-node", !.draggingNodeId = n]
  /\ UNCHANGED <<connectingFromId, undoStack, redoStack, nextUid>>
  /\ RenderedOn("onNodePointerDown", "grab", n, DownsOn(n))

\* a test that lets the first click of a connection start a drag
\* (ConnectClicks tells it apart)
inConnectWithSource(w) == w.mode = "connect" /\ connectingFromId # Null

\* if (world.mode === "connect")
inConnect(w) == w.mode = "connect"

nodeOnPointerDown(n) ==
  /\ PointerReachesCanvas
  /\ n \in NodeIds(world)
  /\ UNCHANGED <<snap, renameOpen, editingNodeId, draggingBg>>
  /\ IF inConnect(world) THEN connectClick(n) ELSE onNodePointerDown(n)

onNodePointerMove(n, d) ==
  /\ PointerReachesCanvas
  /\ n \in NodeIds(world)
  /\ world.mode = "drag-node" /\ world.draggingNodeId = n
  /\ world' = moveNode(world, n, d[1], d[2])
  /\ UNCHANGED <<connectingFromId, selectedNodeId, selectedEdgeId, snap, undoStack,
                 redoStack, renameOpen, editingNodeId, draggingBg, nextUid>>
  /\ Rendered("onNodePointerMove", "move")

\* the event bubbles to the grid layer, whose onBgPointerUp ends a pan
onNodePointerUp(n) ==
  /\ PointerReachesCanvas
  /\ n \in NodeIds(world)
  /\ world.mode = "drag-node" /\ world.draggingNodeId = n
  /\ commit(world)
  /\ world' = [(IF snap THEN snapNode(world, n) ELSE world)
                  EXCEPT !.mode = "idle", !.draggingNodeId = Null]
  /\ draggingBg' = FALSE
  /\ UNCHANGED <<connectingFromId, selectedNodeId, selectedEdgeId, snap,
                 renameOpen, editingNodeId, nextUid>>
  /\ RenderedOn("onNodePointerUp", commitOut, n, IF last.node = n THEN last.downs ELSE 0)

\* a double click follows two pointer-downs on the node
nodeOnDoubleClick(n) ==
  /\ PointerReachesCanvas
  /\ n \in NodeIds(world)
  /\ last.node = n /\ last.downs >= 2
  /\ editingNodeId' = n
  /\ renameOpen' = TRUE
  /\ UNCHANGED <<world, connectingFromId, selectedNodeId, selectedEdgeId, snap,
                 undoStack, redoStack, draggingBg, nextUid>>
  /\ Rendered("nodeOnDoubleClick", "")

(* ------------------------------------------------------------------ *)
(* Keyboard (window keydown listener; reads keyWorld)                   *)
(* ------------------------------------------------------------------ *)
KeyEscape ==
  /\ app = "live"
  /\ UNCHANGED <<connectingFromId, snap, undoStack, redoStack, draggingBg, nextUid>>
  /\ IF renameOpen
       THEN /\ renameOpen' = FALSE
            /\ editingNodeId' = Null
            /\ UNCHANGED <<world, selectedNodeId, selectedEdgeId>>
       ELSE /\ selectedNodeId' = Null
            /\ selectedEdgeId' = Null
            /\ world' = [world EXCEPT !.mode = "idle"]
            /\ UNCHANGED <<renameOpen, editingNodeId>>
  /\ Rendered("KeyEscape", IF renameOpen THEN "" ELSE "idle")

KeyG ==
  /\ app = "live"
  /\ snap' = ~snap
  /\ UNCHANGED <<world, connectingFromId, selectedNodeId, selectedEdgeId, undoStack,
                 redoStack, renameOpen, editingNodeId, draggingBg, nextUid>>
  /\ Rendered("KeyG", "")

\* Ctrl/Cmd+Z
KeyUndo ==
  /\ app = "live"
  /\ undo(keyWorld)
  /\ UNCHANGED <<snap, editingNodeId, draggingBg, nextUid>>
  /\ Rendered("KeyUndo", IF undoStack = <<>> THEN "noop" ELSE "undo")

\* Ctrl/Cmd+Shift+Z, Ctrl/Cmd+Y
KeyRedo ==
  /\ app = "live"
  /\ redo(keyWorld)
  /\ UNCHANGED <<snap, editingNodeId, draggingBg, nextUid>>
  /\ Rendered("KeyRedo", IF redoStack = <<>> THEN "noop" ELSE "redo")

\* Delete / Backspace
KeyDelete ==
  /\ app = "live"
  /\ UNCHANGED <<connectingFromId, snap, renameOpen, editingNodeId, draggingBg, nextUid>>
  /\ IF selectedNodeId # Null
       THEN /\ commit(keyWorld)
            /\ world' = removeNode(world, selectedNodeId)
            /\ selectedNodeId' = Null
            /\ UNCHANGED selectedEdgeId
            /\ Rendered("KeyDelete", commitOut)
       ELSE /\ selectedEdgeId # Null
            /\ commit(keyWorld)
            /\ world' = removeEdge(world, selectedEdgeId)
            /\ selectedEdgeId' = Null
            /\ UNCHANGED selectedNodeId
            /\ Rendered("KeyDeleteEdge", commitOut)

(* ------------------------------------------------------------------ *)
(* Settings form                                                        *)
(* ------------------------------------------------------------------ *)
\* Cancel, a click on the backdrop, Escape typed into the label input
FormCancel ==
  /\ renameOpen
  /\ renameOpen' = FALSE
  /\ editingNodeId' = Null
  /\ UNCHANGED <<world, connectingFromId, selectedNodeId, selectedEdgeId, snap,
                 undoStack, redoStack, draggingBg, nextUid>>
  /\ Rendered("FormCancel", "")

\* Enter typed into the label input: applies the fields without a commit
FormEnter(inp) ==
  /\ renameOpen
  /\ IF editingNodeId # Null
       THEN world' = updateNode(world, editingNodeId, inp)
       ELSE UNCHANGED world
  /\ renameOpen' = FALSE
  /\ editingNodeId' = Null
  /\ UNCHANGED <<connectingFromId, selectedNodeId, selectedEdgeId, snap,
                 undoStack, redoStack, draggingBg, nextUid>>
  /\ Rendered("FormEnter", IF editingNodeId # Null THEN "apply" ELSE "")

FormSave(inp) ==
  /\ renameOpen
  /\ renameOpen' = FALSE
  /\ editingNodeId' = Null
  /\ UNCHANGED <<connectingFromId, selectedNodeId, selectedEdgeId, snap,
                 draggingBg, nextUid>>
  /\ IF editingNodeId # Null
       THEN /\ commit(world)
            /\ world' = updateNode(world, editingNodeId, inp)
            /\ Rendered("FormSave", commitOut)
       ELSE /\ UNCHANGED <<world, undoStack, redoStack>>
            /\ Rendered("FormSave", "")

FormDelete ==
  /\ renameOpen
  /\ editingNodeId # Null
  /\ commit(world)
  /\ world' = removeNode(world, editingNodeId)
  /\ selectedNodeId' = Null
  /\ selectedEdgeId' = Null
  /\ renameOpen' = FALSE
  /\ editingNodeId' = Null
  /\ UNCHANGED <<connectingFromId, snap, draggingBg, nextUid>>
  /\ Rendered("FormDelete", commitOut)

(* ------------------------------------------------------------------ *)
(* Persistence                                                          *)
(* ------------------------------------------------------------------ *)
\* r.f ?? d
Field(r, f, d) == IF f \in DOMAIN r THEN r[f] ELSE d

\* A stored text is [ok, p]: ok says whether JSON.parse accepts it, p is
\* the value it parses to.  safeParse yields <<>> for null.
safeParse(raw) == IF raw # <<>> /\ raw[1].ok THEN << raw[1].p >> ELSE <<>>

\* JSON.stringify of a document
stringify(p) == << [ok |-> TRUE, p |-> p] >>

\* window.localStorage of an environment without a persistent store
NoStore == <<>>

\* typeof window.localStorage !== "undefined"
hasLS(st) == DOMAIN st # {}

\* lsGet(projectKey(name))
lsGetProject(st, name) ==
  IF hasLS(st) /\ name \in DOMAIN st.docs THEN st.docs[name] ELSE <<>>

\* lsGet(LAST_OPENED)
lsGetLastOpened(st) == IF hasLS(st) THEN st.lastOpened ELSE NoName

\* listProjects(): the stored index, or [] when there is none
listProjects(st) == IF hasLS(st) THEN st.projects ELSE <<>>

\* serialize() of the render with closure c, at time now
serialize(c, now) ==
  [version |-> 1,
   meta |-> [id |-> c.projectId, name |-> c.projectName,
             createdAt |-> IF c.lastSavedAt # NoTime THEN c.lastSavedAt ELSE now,
             updatedAt |-> now],
   view |-> [panX |-> c.world.panX, panY |-> c.world.panY, zoom |-> c.world.zoom],
   nodes |-> c.world.nodes,
   edges |-> c.world.edges]

\* a version test that lets every document pass (the import and load
\* properties tell it apart)
acceptsAnyVersion(p) == FALSE

\* if (p.version !== 1) throw new Error("Unsupported version")
unsupportedVersion(p) == p.version # 1

\* an edge test that looks at the source end only (DanglingEdgesDropped
\* tells it apart)
fromPresent(nodeIds, e) == e.fromId \in nodeIds

\* nodeIds.has(e.fromId) && nodeIds.has(e.toId)
bothPresent(nodeIds, e) == e.fromId \in nodeIds /\ e.toId \in nodeIds

\* p.nodes.map, p.edges.filter or p.view.panX throws a TypeError: the
\* document has no nodes, no edges or no view.  This is before setWorld.
throwsBeforeSetWorld(p) ==
  "nodes" \notin DOMAIN p \/ "edges" \notin DOMAIN p \/ "view" \notin DOMAIN p

\* p.meta.name throws a TypeError: the document has no meta.  This is after
\* setWorld.
throwsAfterSetWorld(p) == "meta" \notin DOMAIN p

\* the argument of the setWorld of deserialize(p)
loadedWorld(p) ==
  LET nodeIds == {p.nodes[i].id : i \in 1..Len(p.nodes)}
  IN  [panX |-> Field(p.view, "panX", Num(0)),
       panY |-> Field(p.view, "panY", Num(0)),
       zoom |-> Field(p.view, "zoom", Num(1)),
       nodes |-> [i \in 1..Len(p.nodes) |->
                    [id |-> p.nodes[i].id, x |-> p.nodes[i].x, y |-> p.nodes[i].y,
                     name |-> p.nodes[i].name,
                     color |-> Field(p.nodes[i], "color", "sky"),
                     size |-> Field(p.nodes[i], "size", "small")]],
       edges |-> SelectSeq(p.edges, LAMBDA e : bothPresent(nodeIds, e)),
       mode |-> "idle", draggingNodeId |-> Null]

\* the state deserialize(p) sets, for a document of version 1 that has
\* meta, view, nodes and edges
deserialize(p) ==
  [world |-> loadedWorld(p),
       projectName |-> p.meta.name,
       projectId |-> p.meta.id,
       lastSavedAt |-> p.meta.createdAt]

\* names of the project index
IndexNames(st) == {listProjects(st)[i].name : i \in 1..Len(listProjects(st))}

\* upsertProjectIndex(name, id, updatedAt): the list it stores and returns
upsertProjectIndex(st, name, id, updatedAt) ==
  LET entry == [name |-> name, id |-> id, updatedAt |-> updatedAt]
      list == listProjects(st)
  IN  IF name \in IndexNames(st)
        THEN LET i == CHOOSE j \in 1..Len(list) :
                        /\ list[j].name = name
                        /\ \A k \in 1..(j - 1) : list[k].name # name
             IN  [list EXCEPT ![i] = entry]
        ELSE Append(list, entry)

\* an lsSet that writes whether or not there is a store (NoStoreNoWrites
\* tells it apart)
lsSetAlways(st, name, data, list) ==
  [docs |-> (name :> stringify(data)), projects |-> list, lastOpened |-> name]

\* the three lsSet calls of saveProject and upsertProjectIndex: the
\* document, the last-opened name and the index; no-ops without a store
lsSetSaved(st, name, data, list) ==
  IF hasLS(st)
    THEN [docs |-> [k \in DOMAIN st.docs \cup {name} |->
                      IF k = name THEN stringify(data) ELSE st.docs[k]],
          projects |-> list,
          lastOpened |-> name]
    ELSE st

\* saveProject(name) of the render with closure c, at time now: the store
\* it leaves and the state it sets
saveProject(c, name, st, now) ==
  LET data == [serialize(c, now) EXCEPT !.meta.name = name]
      list == upsertProjectIndex(st, name, data.meta.id, data.meta.updatedAt)
  IN  [storage |-> lsSetSaved(st, name, data, list),
       projectName |-> name,
       lastSavedAt |-> data.meta.updatedAt,
       projectOptions |-> [i \in 1..Len(list) |-> list[i].name]]

\* `${base} ${i}`
Numbered(base, i) == Append(base, i)

\* ensureUniqueName(base)
ensureUniqueName(st, base) ==
  IF base \notin IndexNames(st) THEN base
  ELSE LET i == CHOOSE j \in 2..(Len(listProjects(st)) + 2) :
                   /\ Numbered(base, j) \notin IndexNames(st)
                   /\ \A k \in 2..(j - 1) : Numbered(base, k) \in IndexNames(st)
       IN  Numbered(base, i)

\* the closure of the current render
Current == Closure(world, projectName, projectId, lastSavedAt)

\* setWorld(w => ({...w, panX: 0, panY: 0, zoom: 1, nodes: [], edges: []}))
clearedWorld(w) ==
  [w EXCEPT !.panX = Num(0), !.panY = Num(0), !.zoom = Num(1), !.nodes = <<>>,
            !.edges = <<>>]

\* the document of a project "Tree" showing world w, saved at time 1
TreeDoc(w) == serialize(Closure(w, <<"Tree">>, 100, NoTime), 1)

\* a document written by a later release of the format
OldDoc == [TreeDoc(EmptyWorld) EXCEPT !.version = 2, !.meta.name = <<"Old">>, !.meta.id = 200]

\* a store of earlier sessions: "Tree" holds w, "Old" holds a version-2
\* document, the text under "Junk" is not JSON; lo is the last-opened name
Stored(w, lo) ==
  [docs |-> (<<"Tree">> :> stringify(TreeDoc(w)))
              @@ (<<"Old">> :> stringify(OldDoc))
              @@ (<<"Junk">> :> << [ok |-> FALSE, p |-> OldDoc] >>),
   projects |-> << [name |-> <<"Tree">>, id |-> 100, updatedAt |-> 1],
                   [name |-> <<"Old">>, id |-> 200, updatedAt |-> 1],
                   [name |-> <<"Junk">>, id |-> 201, updatedAt |-> 1] >>,
   lastOpened |-> lo]

\* the store of a first run
EmptyStore == [docs |-> <<>>, projects |-> <<>>, lastOpened |-> NoName]

\* files offered to Import: an export of another "Tree", a hand-written
\* document without name, id, zoom, colour and size, a version-2 document,
\* and a file that is not JSON
FileTree ==
  [version |-> 1,
   meta |-> [id |-> 300, name |-> <<"Tree">>, createdAt |-> 1, updatedAt |-> 1],
   view |-> [panX |-> Num(0), panY |-> Num(0), zoom |-> Num(1)],
   nodes |-> << [id |-> 301, x |-> Num(0), y |-> Num(0), name |-> "R", color |-> "rose", size |-> "large"] >>,
   edges |-> <<>>]

FileAnon ==
  [version |-> 1,
   meta |-> [id |-> Null, name |-> NoName, createdAt |-> 1, updatedAt |-> 1],
   view |-> [panX |-> Num(1), panY |-> Num(1)],
   nodes |-> << [id |-> 302, x |-> Num(0), y |-> Num(0), name |-> "S"] >>,
   edges |-> << [id |-> 303, fromId |-> 302, toId |-> 304] >>]

\* hand-written documents with a zoom of 3, of 1.9 and of 0.26
FileZoomed(name, zoom) ==
  [FileTree EXCEPT !.meta.name = name, !.view.zoom = zoom]

\* a hand-written document with the nodes A and B and no edge
FilePair == [FileTree EXCEPT !.nodes = PairWorld.nodes]

\* document p with field f left out
Without(p, f) == [k \in DOMAIN p \ {f} |-> p[k]]

\* version-1 files that lack meta, nodes, edges or view, a version-2 file
\* and a file that is not JSON
BrokenFiles ==
  { stringify(Without(FileTree, f)) : f \in {"meta", "nodes", "edges", "view"} }
    \cup { stringify([FileTree EXCEPT !.version = 2]), << [ok |-> FALSE, p |-> FileTree] >> }

\* a store of earlier sessions in which the text under "Junk" was replaced
\* by a version-1 document without meta
BrokenStore ==
  [Stored(PairWorld, <<"Tree">>) EXCEPT
     !.docs[<<"Junk">>] = stringify(Without(TreeDoc(EmptyWorld), "meta"))]

ZoomFiles ==
  { stringify(FileZoomed(<<"Far">>, Frac(13, 50))),
    stringify(FileZoomed(<<"Near">>, Frac(19, 10))),
    stringify(FileZoomed(<<"Huge">>, Num(3))) }

Files ==
  { stringify(FileTree), stringify(FileAnon),
    stringify([FileTree EXCEPT !.version = 2]),
    << [ok |-> FALSE, p |-> FileTree] >> }

\* version-1 documents as a hand-edited or foreign file may hold them: the
\* nodes A and B of the pair project or some of them, and up to MaxDocEdges
\* edges between A, B and a node 103 that is not in the document, self-loops
\* and repeated pairs included
DocNodeLists ==
  { SubSeq(PairWorld.nodes, i, j) : i \in 1..2, j \in 0..2 }

DocEdgeLists ==
  UNION { [1..k -> {101, 102, 103} \X {101, 102, 103}] : k \in 0..MaxDocEdges }

Doc(ns, es) ==
  [TreeDoc(EmptyWorld) EXCEPT
     !.nodes = ns,
     !.edges = [i \in 1..Len(es) |-> [id |-> 400 + i, fromId |-> es[i][1], toId |-> es[i][2]]]]

Docs == { Doc(ns, es) : ns \in DocNodeLists, es \in DocEdgeLists }

\* a store whose only project, "Tree", holds document p and was opened last
StoreOf(p) ==
  [docs |-> (<<"Tree">> :> stringify(p)),
   projects |-> << [name |-> <<"Tree">>, id |-> 100, updatedAt |-> 1] >>,
   lastOpened |-> <<"Tree">>]

\* The effects of the first render.  The project list is read from the
\* index; the last-opened project is loaded, or a fresh "Untitled" project is
\* made and its first save is queued with the closure of the first render.
\* An exception thrown by the load escapes the effect and takes the
\* component down.  Without a store the effect returns at once and the
\* autosave effect arms the debounced save of the first render.
StartUp ==
  /\ app = "boot"
  /\ UNCHANGED <<connectingFromId, selectedNodeId, selectedEdgeId, snap, undoStack,
                 redoStack, renameOpen, editingNodeId, draggingBg, importing, clock>>
  /\ LET lo == lsGetLastOpened(storage)
         parsed == IF lo # NoName THEN safeParse(lsGetProject(storage, lo)) ELSE <<>>
         names == [i \in 1..Len(listProjects(storage)) |-> listProjects(storage)[i].name]
     IN  IF ~hasLS(storage)
           THEN /\ app' = "live"
                /\ UNCHANGED <<world, projectName, projectId, lastSavedAt, projectOptions,
                               storage, timers, nextUid>>
                /\ Effects("StartUp", "mounted", "", Null, 0)
           ELSE
         IF parsed # <<>> /\ unsupportedVersion(parsed[1])
           THEN /\ app' = "crashed"
                /\ UNCHANGED <<world, projectName, projectId, lastSavedAt, projectOptions,
                               storage, timers, nextUid>>
                /\ Effects("StartUp", "", "Unsupported version", Null, 0)
           ELSE
         IF parsed # <<>> /\ (throwsBeforeSetWorld(parsed[1]) \/ throwsAfterSetWorld(parsed[1]))
           THEN /\ app' = "crashed"
                /\ UNCHANGED <<world, projectName, projectId, lastSavedAt, projectOptions,
                               storage, timers, nextUid>>
                /\ Effects("StartUp", "", "TypeError", Null, 0)
           ELSE IF parsed # <<>>
             THEN LET d == deserialize(parsed[1])
                  IN  /\ app' = "live"
                      /\ world' = d.world
                      /\ projectName' = d.projectName
                      /\ projectId' = d.projectId
                      /\ lastSavedAt' = d.lastSavedAt
                      /\ projectOptions' = names
                      /\ storage' = [storage EXCEPT !.lastOpened = lo]
                      /\ UNCHANGED <<timers, nextUid>>
                      /\ Effects("StartUp", "loaded", "", Null, 0)
             ELSE LET name == ensureUniqueName(storage, <<"Untitled">>)
                  IN  /\ app' = "live"
                      /\ world' = clearedWorld(world)
                      /\ projectName' = name
                      /\ projectId' = nextUid
                      /\ nextUid' = nextUid + 1
                      /\ projectOptions' = names
                      /\ timers' = timers \cup {[name |-> name, c |-> Current]}
                      /\ UNCHANGED <<lastSavedAt, storage>>
                      /\ Effects("StartUp", "fresh", "", Null, 0)

\* New: a fresh project under a unique name; its first save is queued
\* with the closure of the render the button was clicked in
NewProject ==
  /\ PointerReachesCanvas
  /\ UNCHANGED <<connectingFromId, selectedNodeId, selectedEdgeId, snap, undoStack,
                 redoStack, renameOpen, editingNodeId, draggingBg, importing, clock,
                 lastSavedAt, storage, projectOptions, app>>
  /\ LET name == ensureUniqueName(storage, <<"Untitled">>)
     IN  /\ projectName' = name
         /\ projectId' = nextUid
         /\ nextUid' = nextUid + 1
         /\ world' = clearedWorld(world)
         /\ timers' = timers \cup {[name |-> name, c |-> Current]}
         /\ Effects("NewProject", "fresh", "", Null, 0)

\* the project picker: its options are the current name and the listed
\* names; choosing the current one is no change
OpenProject(name) ==
  /\ PointerReachesCanvas
  /\ name # projectName
  /\ UNCHANGED <<connectingFromId, selectedNodeId, selectedEdgeId, snap, undoStack,
                 redoStack, renameOpen, editingNodeId, draggingBg, importing, clock,
                 projectOptions, timers, nextUid, app>>
  /\ LET parsed == safeParse(lsGetProject(storage, name))
     IN  IF parsed = <<>>
           THEN /\ UNCHANGED <<world, projectName, projectId, lastSavedAt, storage>>
                /\ Effects("OpenProject", "Could not load project.", "", Null, 0)
           ELSE IF unsupportedVersion(parsed[1])
             THEN /\ UNCHANGED <<world, projectName, projectId, lastSavedAt, storage>>
                  /\ Effects("OpenProject", "", "Unsupported version", Null, 0)
             ELSE IF throwsBeforeSetWorld(parsed[1])
             THEN /\ UNCHANGED <<world, projectName, projectId, lastSavedAt, storage>>
                  /\ Effects("OpenProject", "", "TypeError", Null, 0)
             ELSE IF throwsAfterSetWorld(parsed[1])
             THEN /\ world' = loadedWorld(parsed[1])
                  /\ UNCHANGED <<projectName, projectId, lastSavedAt, storage>>
                  /\ Effects("OpenProject", "partial", "TypeError", Null, 0)
             ELSE LET d == deserialize(parsed[1])
                  IN  /\ world' = d.world
                      /\ projectName' = d.projectName
                      /\ projectId' = d.projectId
                      /\ lastSavedAt' = d.lastSavedAt
                      /\ storage' = [storage EXCEPT !.lastOpened = name]
                      /\ Effects("OpenProject", "loaded", "", Null, 0)

\* Import, up to `await file.text()`: the rest of the handler keeps the
\* closure of this render
ImportPick(f) ==
  /\ PointerReachesCanvas
  /\ importing = <<>>
  /\ importing' = << [file |-> f, c |-> Current] >>
  /\ UNCHANGED <<world, connectingFromId, selectedNodeId, selectedEdgeId, snap,
                 undoStack, redoStack, renameOpen, editingNodeId, draggingBg, nextUid,
                 storage, projectName, projectId, lastSavedAt, projectOptions, timers,
                 app, clock>>
  /\ Effects("ImportPick", "", "", Null, 0)

\* Import, from the text on.  An exception of deserialize is caught and
\* answered with the alert "Import failed."; when deserialize had called
\* setWorld before it threw, the world is replaced all the same.  In the
\* finally block e.currentTarget is null by now, so the assignment to its
\* value throws a TypeError.
ImportResume ==
  /\ importing # <<>>
  /\ importing' = <<>>
  /\ UNCHANGED <<connectingFromId, selectedNodeId, selectedEdgeId, snap, undoStack,
                 redoStack, renameOpen, editingNodeId, draggingBg, timers, app>>
  /\ LET c == importing[1].c
         parsed == safeParse(importing[1].file)
     IN  IF parsed = <<>>
           THEN /\ UNCHANGED <<world, projectName, projectId, lastSavedAt, projectOptions,
                               storage, nextUid, clock>>
                /\ Effects("ImportResume", "Invalid JSON", "", Null, 0)
           ELSE IF unsupportedVersion(parsed[1])
             THEN /\ UNCHANGED <<world, projectName, projectId, lastSavedAt,
                                 projectOptions, storage, nextUid, clock>>
                  /\ Effects("ImportResume", "Import failed.", "TypeError", Null, 0)
             ELSE IF throwsBeforeSetWorld(parsed[1])
             THEN /\ UNCHANGED <<world, projectName, projectId, lastSavedAt,
                                 projectOptions, storage, nextUid, clock>>
                  /\ Effects("ImportResume", "Import failed.", "TypeError", Null, 0)
             ELSE IF throwsAfterSetWorld(parsed[1])
             THEN /\ world' = loadedWorld(parsed[1])
                  /\ UNCHANGED <<projectName, projectId, lastSavedAt, projectOptions,
                                 storage, nextUid, clock>>
                  /\ Effects("ImportResume", "partial", "TypeError", Null, 0)
             ELSE LET p == parsed[1]
                      d == deserialize(p)
                      finalName ==
                        ensureUniqueName(storage,
                           IF p.meta.name # NoName THEN p.meta.name ELSE <<"Imported">>)
                      sv == saveProject(c, finalName, storage, clock)
                  IN  /\ world' = d.world
                      /\ projectName' = finalName
                      /\ projectId' = IF p.meta.id # Null THEN p.meta.id ELSE nextUid
                      /\ nextUid' = IF p.meta.id # Null THEN nextUid ELSE nextUid + 1
                      /\ lastSavedAt' = sv.lastSavedAt
                      /\ projectOptions' = sv.projectOptions
                      /\ storage' = sv.storage
                      /\ clock' = clock + 1
                      /\ Effects("ImportResume", "imported", "TypeError", Null, 0)

\* a queued setTimeout(() => saveProject(name), 0) runs
TimerFire(t) ==
  /\ t \in timers
  /\ timers' = timers \ {t}
  /\ LET sv == saveProject(t.c, t.name, storage, clock)
     IN  /\ storage' = sv.storage
         /\ projectName' = sv.projectName
         /\ lastSavedAt' = sv.lastSavedAt
         /\ projectOptions' = sv.projectOptions
  /\ clock' = clock + 1
  /\ UNCHANGED <<world, connectingFromId, selectedNodeId, selectedEdgeId, snap,
                 undoStack, redoStack, renameOpen, editingNodeId, draggingBg, nextUid,
                 projectId, importing, app>>
  /\ Effects("TimerFire", "saved", "", Null, 0)

\* the debounced save runs: saveProject(projectName) of the render that
\* armed it.  A queued zero-delay save was queued no later than the
\* debounced save was armed, and so runs before it.
AutosaveFire ==
  /\ autosave # <<>>
  /\ timers = {}
  /\ LET c == autosave[1]
         sv == saveProject(c, c.projectName, storage, clock)
     IN  /\ storage' = sv.storage
         /\ projectName' = sv.projectName
         /\ lastSavedAt' = sv.lastSavedAt
         /\ projectOptions' = sv.projectOptions
  /\ clock' = clock + 1
  /\ UNCHANGED <<world, connectingFromId, selectedNodeId, selectedEdgeId, snap,
                 undoStack, redoStack, renameOpen, editingNodeId, draggingBg, nextUid,
                 projectId, timers, importing, app>>
  /\ Effects("AutosaveFire", "saved", "", Null, 0)

(* ------------------------------------------------------------------ *)
(* The editor                                                           *)
(* ------------------------------------------------------------------ *)
\* projects the start-up effect has loaded: an empty one and the sample
InitWorlds == {EmptyWorld, SampleWorld}

\* The editor showing project "Tree" with world w, which the start-up
\* effect has just loaded; the keydown listener was installed by the first
\* render and closes over the empty world.
Start(w) ==
  /\ world = w
  /\ connectingFromId = Null
  /\ selectedNodeId = Null
  /\ selectedEdgeId = Null
  /\ snap = FALSE
  /\ undoStack = <<>>
  /\ redoStack = <<>>
  /\ renameOpen = FALSE
  /\ editingNodeId = Null
  /\ draggingBg = FALSE
  /\ keyWorld = EmptyWorld
  /\ nextUid = 2
  /\ storage = Stored(w, <<"Tree">>)
  /\ projectName = <<"Tree">>
  /\ projectId = 100
  /\ lastSavedAt = 1
  /\ saving = TRUE
  /\ projectOptions = << <<"Tree">>, <<"Old">>, <<"Junk">> >>
  /\ autosave = << Closure(w, <<"Tree">>, 100, 1) >>
  /\ timers = {}
  /\ importing = <<>>
  /\ app = "live"
  /\ clock = 2
  /\ last = [op |-> "StartUp", out |-> "loaded", err |-> "", node |-> Null, downs |-> 0,
             drag |-> NoDrag]
  /\ ur = UrOff

Init == \E w \in InitWorlds : Start(w)

\* The component after its first render, before its effects, over store st.
\* The first value of uid() went to the project id.
Boot(st) ==
  /\ world = EmptyWorld
  /\ connectingFromId = Null
  /\ selectedNodeId = Null
  /\ selectedEdgeId = Null
  /\ snap = FALSE
  /\ undoStack = <<>>
  /\ redoStack = <<>>
  /\ renameOpen = FALSE
  /\ editingNodeId = Null
  /\ draggingBg = FALSE
  /\ keyWorld = EmptyWorld
  /\ nextUid = 2
  /\ storage = st
  /\ projectName = <<"Untitled">>
  /\ projectId = 1
  /\ lastSavedAt = NoTime
  /\ saving = FALSE
  /\ projectOptions = <<>>
  /\ autosave = <<>>
  /\ timers = {}
  /\ importing = <<>>
  /\ app = "boot"
  /\ clock = 2
  /\ last = [op |-> "render", out |-> "", err |-> "", node |-> Null, downs |-> 0,
             drag |-> NoDrag]
  /\ ur = UrOff

\* the whole coordinates from lo up to the bound
Coords(lo) == {Num(c) : c \in lo..MaxCoord}

\* the part of the state space that is explored
InBounds ==
  /\ Len(undoStack) <= MaxHist
  /\ nextUid <= MaxUid + 2
  /\ world.panX \in Coords(0) /\ world.panY \in Coords(0)
  /\ \A i \in 1..Len(world.nodes) :
        world.nodes[i].x \in Coords(-MaxCoord) /\ world.nodes[i].y \in Coords(-MaxCoord)

\* selecting, connecting and deleting nodes and edges of a loaded project,
\* through the canvas, the keyboard and the settings form
Next ==
  \/ ToggleConnect /\ InBounds'
  \/ (\E e \in RenderedEdges : edgeOnPointerDown(e)) /\ InBounds'
  \/ (\E n \in NodeIds(world) : nodeOnPointerDown(n)) /\ InBounds'
  \/ (\E n \in NodeIds(world) : onNodePointerUp(n)) /\ InBounds'
  \/ KeyEscape /\ InBounds'
  \/ KeyDelete /\ InBounds'
  \/ (\E n \in NodeIds(world) : nodeOnDoubleClick(n)) /\ InBounds'
  \/ FormCancel /\ InBounds'
  \/ FormDelete /\ InBounds'

Spec == Init /\ [][Next]_vars

\* committing, undoing and redoing on a small project, with uncommitted
\* pans in between
InitHistory == Start(PairWorld)

NextHistory ==
  \/ (\E e \in RenderedEdges : edgeOnPointerDown(e)) /\ InBounds'
  \/ (\E p \in ClickPoints : onBgPointerDown(p)) /\ InBounds'
  \/ (\E d \in Deltas : onBgPointerMove(d)) /\ InBounds'
  \/ onBgPointerUp /\ InBounds'
  \/ ResetView /\ InBounds'
  \/ KeyEscape /\ InBounds'
  \/ KeyDelete /\ InBounds'
  \/ UndoButton /\ InBounds'
  \/ RedoButton /\ InBounds'
  \/ KeyUndo /\ InBounds'
  \/ KeyRedo /\ InBounds'

SpecHistory == InitHistory /\ [][NextHistory]_vars

\* the undo and redo shortcuts pressed in any state of the editor: with a
\* selection, a connect source, the settings form open, and with one or
\* both stacks empty
InKeysBounds == InBounds /\ Len(undoStack) + Len(redoStack) <= MaxHistKeys

NextKeys ==
  \/ ToggleConnect /\ InKeysBounds'
  \/ (\E e \in RenderedEdges : edgeOnPointerDown(e)) /\ InKeysBounds'
  \/ (\E n \in NodeIds(world) : nodeOnPointerDown(n)) /\ InKeysBounds'
  \/ (\E n \in NodeIds(world) : nodeOnDoubleClick(n)) /\ InKeysBounds'
  \/ FormCancel /\ InKeysBounds'
  \/ KeyEscape /\ InKeysBounds'
  \/ KeyDelete /\ InKeysBounds'
  \/ KeyUndo /\ InKeysBounds'
  \/ KeyRedo /\ InKeysBounds'

SpecKeys == InitHistory /\ [][NextKeys]_vars

\* a long history: Reset View pressed over and over, with undos and redos
\* from the toolbar in between; the length of the undo stack is not capped
\* by the model
InitLimit == Start(PannedWorld)

NextLimit ==
  \/ ResetView
  \/ UndoButton
  \/ RedoButton

SpecLimit == InitLimit /\ [][NextLimit]_vars

\* projects: start-up over the stores of earlier sessions, the project
\* picker, Import, the queued and the debounced saves, with Reset View
\* committing in between
InitStores ==
  {EmptyStore} \cup {Stored(PairWorld, lo) : lo \in {NoName, <<"Tree">>, <<"Old">>, <<"Junk">>}}

InitStore == \E st \in InitStores : Boot(st)

InStoreBounds == InBounds /\ clock <= MaxClock

NextStore ==
  \/ StartUp /\ InStoreBounds'
  \/ (\E name \in Range(projectOptions) : OpenProject(name)) /\ InStoreBounds'
  \/ (\E f \in Files : ImportPick(f)) /\ InStoreBounds'
  \/ ImportResume /\ InStoreBounds'
  \/ (\E t \in timers : TimerFire(t)) /\ InStoreBounds'
  \/ AutosaveFire /\ InStoreBounds'
  \/ ResetView /\ InStoreBounds'

SpecStore == InitStore /\ [][NextStore]_vars

\* zooming with the wheel, with Reset View, undo and redo and with imports
\* of documents that hold other zooms
InZoomBounds ==
  /\ Len(undoStack) + Len(redoStack) <= MaxHistKeys
  /\ clock <= MaxClock - 1
  /\ world.zoom.d <= MaxDen /\ world.panX.d <= MaxDen /\ world.panY.d <= MaxDen

NextZoom ==
  \/ (\E p \in WheelPoints, direction \in WheelDirs : onBgWheel(p, direction)) /\ InZoomBounds'
  \/ ResetView /\ InZoomBounds'
  \/ UndoButton /\ InZoomBounds'
  \/ RedoButton /\ InZoomBounds'
  \/ (\E f \in ZoomFiles : ImportPick(f)) /\ InZoomBounds'
  \/ ImportResume /\ InZoomBounds'

SpecZoom == InitHistory /\ [][NextZoom]_vars

\* making projects: the first run, New and Import, the queued and the
\* debounced saves, with Reset View as a change of the world in between
InitProjects ==
  \E st \in {EmptyStore, Stored(PannedWorld, <<"Tree">>), Stored(PannedWorld, <<"Junk">>)} :
     Boot(st)

InProjectsBounds ==
  /\ Len(undoStack) <= MaxHistKeys
  /\ nextUid <= 2 + MaxProjects
  /\ clock <= MaxClock

NextProjects ==
  \/ StartUp /\ InProjectsBounds'
  \/ NewProject /\ InProjectsBounds'
  \/ (\E f \in Files : ImportPick(f)) /\ InProjectsBounds'
  \/ ImportResume /\ InProjectsBounds'
  \/ (\E t \in timers : TimerFire(t)) /\ InProjectsBounds'
  \/ AutosaveFire /\ InProjectsBounds'
  \/ ResetView /\ InProjectsBounds'

SpecProjects == InitProjects /\ [][NextProjects]_vars

\* dragging the nodes of a small project and panning the canvas, with one
\* pointer or with two (a second finger, a pen), and undoing and redoing
InitDrag == Start(PairWorld)

\* nodes are dragged within the square of non-negative coordinates
InDragBounds ==
  /\ InKeysBounds
  /\ \A i \in 1..Len(world.nodes) :
        world.nodes[i].x \in Coords(0) /\ world.nodes[i].y \in Coords(0)

NextDrag ==
  \/ (\E n \in NodeIds(world) : nodeOnPointerDown(n)) /\ InDragBounds'
  \/ (\E n \in NodeIds(world), d \in DragDeltas : onNodePointerMove(n, d)) /\ InDragBounds'
  \/ (\E n \in NodeIds(world) : onNodePointerUp(n)) /\ InDragBounds'
  \/ (\E p \in ClickPoints : onBgPointerDown(p)) /\ InDragBounds'
  \/ (\E d \in Deltas : onBgPointerMove(d)) /\ InDragBounds'
  \/ onBgPointerUp /\ InDragBounds'
  \/ KeyEscape /\ InDragBounds'
  \/ UndoButton /\ InDragBounds'
  \/ RedoButton /\ InDragBounds'

SpecDrag == InitDrag /\ [][NextDrag]_vars

\* no deferred callback is pending: a queued save and a file read complete
\* before the next edit; the project picker is used at any moment
Quiet == timers = {} /\ importing = <<>>

\* selecting nodes and edges, choosing a connect source and panning in a
\* stored project, and then opening another project or importing a file
InitLoad == \E st \in {Stored(PairWorld, <<"Tree">>)} : Boot(st)

InLoadBounds == InKeysBounds /\ clock <= MaxClock - 1

NextLoad ==
  \/ StartUp /\ InLoadBounds'
  \/ (\E n \in NodeIds(world) : nodeOnPointerDown(n)) /\ Quiet /\ InLoadBounds'
  \/ (\E n \in NodeIds(world) : onNodePointerUp(n)) /\ Quiet /\ InLoadBounds'
  \/ (\E e \in RenderedEdges : edgeOnPointerDown(e)) /\ Quiet /\ InLoadBounds'
  \/ ToggleConnect /\ Quiet /\ InLoadBounds'
  \/ (\E p \in ClickPoints : onBgPointerDown(p)) /\ Quiet /\ InLoadBounds'
  \/ onBgPointerUp /\ Quiet /\ InLoadBounds'
  \/ (\E name \in Range(projectOptions) : OpenProject(name)) /\ InLoadBounds'
  \/ (\E f \in {stringify(FileTree)} : ImportPick(f)) /\ InLoadBounds'
  \/ ImportResume /\ InLoadBounds'

SpecLoad == InitLoad /\ [][NextLoad]_vars

\* importing files and opening stored documents that deserialize cannot
\* read, with a project open whose nodes are selected and clicked
InitBroken == Boot(BrokenStore)

NextBroken ==
  \/ StartUp /\ InLoadBounds'
  \/ (\E n \in NodeIds(world) : nodeOnPointerDown(n)) /\ Quiet /\ InLoadBounds'
  \/ (\E n \in NodeIds(world) : onNodePointerUp(n)) /\ Quiet /\ InLoadBounds'
  \/ (\E name \in Range(projectOptions) : OpenProject(name)) /\ InLoadBounds'
  \/ (\E f \in BrokenFiles : ImportPick(f)) /\ InLoadBounds'
  \/ ImportResume /\ InLoadBounds'
  \/ AutosaveFire /\ InLoadBounds'

SpecBroken == InitBroken /\ [][NextBroken]_vars

\* A session that ends: Reset View, New, the project picker and Import
\* change the project until the clock has reached its bound, and every
\* effect, file read, queued save and debounced save that is pending runs.
\* The bounds stop the user, never a callback.
InitLive == Boot(Stored(PannedWorld, <<"Tree">>))

MayChange == app = "live" /\ clock <= MaxClock - 1

InLiveBounds ==
  /\ Len(undoStack) <= MaxHistKeys
  /\ nextUid <= 2 + MaxProjects

NextLive ==
  \/ StartUp
  \/ MayChange /\ ResetView /\ InLiveBounds'
  \/ MayChange /\ NewProject /\ InLiveBounds'
  \/ MayChange /\ (\E name \in Range(projectOptions) : OpenProject(name)) /\ InLiveBounds'
  \/ MayChange /\ (\E f \in {stringify(FileTree)} : ImportPick(f)) /\ InLiveBounds'
  \/ ImportResume
  \/ (\E t \in timers : TimerFire(t))
  \/ AutosaveFire

SpecLive ==
  /\ InitLive /\ [][NextLive]_vars
  /\ WF_vars(StartUp)
  /\ WF_vars(ImportResume)
  /\ WF_vars(\E t \in timers : TimerFire(t))
  /\ WF_vars(AutosaveFire)

\* placing nodes on an empty canvas in add-node mode, closing the settings
\* form, clicking the placed nodes, toggling the modes and pressing Escape
InitPlace == Start(EmptyWorld)

InPlaceBounds ==
  /\ Len(undoStack) <= MaxHist
  /\ nextUid <= 2 + MaxPlaced

NextPlace ==
  \/ ToggleAddNode /\ InPlaceBounds'
  \/ ToggleConnect /\ InPlaceBounds'
  \/ (\E p \in ClickPoints : onBgPointerDown(p)) /\ InPlaceBounds'
  \/ onBgPointerUp /\ InPlaceBounds'
  \/ FormCancel /\ InPlaceBounds'
  \/ (\E n \in NodeIds(world) : nodeOnPointerDown(n)) /\ InPlaceBounds'
  \/ (\E n \in NodeIds(world) : onNodePointerUp(n)) /\ InPlaceBounds'
  \/ KeyEscape /\ InPlaceBounds'

SpecPlace == InitPlace /\ [][NextPlace]_vars

\* connecting, clicking and deleting the two nodes of a project that has no
\* edge yet
InitConnect == Start(deserialize(FilePair).world)

NextConnect ==
  \/ ToggleConnect /\ InBounds'
  \/ (\E n \in NodeIds(world) : nodeOnPointerDown(n)) /\ InBounds'
  \/ (\E n \in NodeIds(world) : onNodePointerUp(n)) /\ InBounds'
  \/ (\E e \in RenderedEdges : edgeOnPointerDown(e)) /\ InBounds'
  \/ KeyEscape /\ InBounds'
  \/ KeyDelete /\ InBounds'

SpecConnect == InitConnect /\ [][NextConnect]_vars

\* placing nodes on a canvas that is zoomed with the wheel
InitPlaceZoom == Start(EmptyWorld)

InPlaceZoomBounds ==
  /\ Len(undoStack) <= MaxHist
  /\ nextUid <= 2 + MaxPlaced
  /\ world.zoom.d <= MaxDen /\ world.panX.d <= MaxDen /\ world.panY.d <= MaxDen

NextPlaceZoom ==
  \/ (\E p \in WheelPoints, direction \in WheelDirs : onBgWheel(p, direction))
        /\ InPlaceZoomBounds'
  \/ ToggleAddNode /\ InPlaceZoomBounds'
  \/ (\E p \in ClickPoints : onBgPointerDown(p)) /\ InPlaceZoomBounds'
  \/ onBgPointerUp /\ InPlaceZoomBounds'
  \/ FormCancel /\ InPlaceZoomBounds'

SpecPlaceZoom == InitPlaceZoom /\ [][NextPlaceZoom]_vars

\* dragging the nodes of a small project on a canvas that is zoomed with
\* the wheel
InitDragZoom == Start(PairWorld)

InDragZoomBounds ==
  /\ Len(undoStack) + Len(redoStack) <= MaxHistKeys
  /\ world.zoom.d <= MaxDen /\ world.panX.d <= MaxDen /\ world.panY.d <= MaxDen
  /\ \A i \in 1..Len(world.nodes) :
        world.nodes[i].x \in Coords(0) /\ world.nodes[i].y \in Coords(0)

NextDragZoom ==
  \/ (\E p \in WheelPoints, direction \in WheelDirs : onBgWheel(p, direction))
        /\ InDragZoomBounds'
  \/ (\E n \in NodeIds(world) : nodeOnPointerDown(n)) /\ InDragZoomBounds'
  \/ (\E n \in NodeIds(world), d \in DragDeltas : onNodePointerMove(n, d))
        /\ InDragZoomBounds'
  \/ (\E n \in NodeIds(world) : onNodePointerUp(n)) /\ InDragZoomBounds'

SpecDragZoom == InitDragZoom /\ [][NextDragZoom]_vars

\* placing and dragging nodes off the grid, with snap switched on and off by
\* the toolbar button and by the G key
InitSnap == Start(EmptyWorld)

InSnapBounds ==
  /\ Len(undoStack) <= MaxHist
  /\ nextUid <= 2 + MaxPlaced
  /\ \A i \in 1..Len(world.nodes) :
        /\ leq(Num(-MaxSnapCoord), world.nodes[i].x) /\ leq(world.nodes[i].x, Num(MaxSnapCoord))
        /\ leq(Num(-MaxSnapCoord), world.nodes[i].y) /\ leq(world.nodes[i].y, Num(MaxSnapCoord))

NextSnap ==
  \/ ToggleSnap /\ InSnapBounds'
  \/ KeyG /\ InSnapBounds'
  \/ ToggleAddNode /\ InSnapBounds'
  \/ (\E p \in SnapPoints : onBgPointerDown(p)) /\ InSnapBounds'
  \/ onBgPointerUp /\ InSnapBounds'
  \/ FormCancel /\ InSnapBounds'
  \/ (\E n \in NodeIds(world) : nodeOnPointerDown(n)) /\ InSnapBounds'
  \/ (\E n \in NodeIds(world), d \in SnapDeltas : onNodePointerMove(n, d)) /\ InSnapBounds'
  \/ (\E n \in NodeIds(world) : onNodePointerUp(n)) /\ InSnapBounds'

SpecSnap == InitSnap /\ [][NextSnap]_vars

\* the editor in an environment without window.localStorage: placing,
\* connecting and deleting nodes, undo and redo, and New, Import, the project
\* picker and the queued and debounced saves
InitNoStore == Boot(NoStore)

InNoStoreBounds ==
  /\ Len(undoStack) + Len(redoStack) <= MaxHistKeys
  /\ nextUid <= 2 + MaxEdit
  /\ clock <= MaxClock - 1

NextNoStore ==
  \/ StartUp /\ InNoStoreBounds'
  \/ ToggleAddNode /\ Quiet /\ InNoStoreBounds'
  \/ (\E p \in ClickPoints : onBgPointerDown(p)) /\ Quiet /\ InNoStoreBounds'
  \/ FormCancel /\ Quiet /\ InNoStoreBounds'
  \/ ToggleConnect /\ Quiet /\ InNoStoreBounds'
  \/ (\E n \in NodeIds(world) : nodeOnPointerDown(n)) /\ Quiet /\ InNoStoreBounds'
  \/ KeyDelete /\ Quiet /\ InNoStoreBounds'
  \/ UndoButton /\ Quiet /\ InNoStoreBounds'
  \/ RedoButton /\ Quiet /\ InNoStoreBounds'
  \/ NewProject /\ Quiet /\ InNoStoreBounds'
  \/ (\E f \in {stringify(FilePair)} : ImportPick(f)) /\ Quiet /\ InNoStoreBounds'
  \/ ImportResume /\ InNoStoreBounds'
  \/ (\E name \in Range(projectOptions) : OpenProject(name)) /\ InNoStoreBounds'
  \/ (\E t \in timers : TimerFire(t)) /\ InNoStoreBounds'
  \/ AutosaveFire /\ InNoStoreBounds'

SpecNoStore == InitNoStore /\ [][NextNoStore]_vars

\* start-up over a store whose last-opened project holds any of the
\* documents of Docs: the start-up effect hands it to deserialize
InitDocs == \E p \in Docs : Boot(StoreOf(p))

NextDocs == StartUp

SpecDocs == InitDocs /\ [][NextDocs]_vars

(* ------------------------------------------------------------------ *)
(* Properties                                                           *)
(* ------------------------------------------------------------------ *)
CommitOuts == {"commit", "commit-cleared-redo"}

\* C1: every edge of world.edges joins two distinct nodes that are both in
\* world.nodes, after any sequence of deletions, connect clicks, mode
\* toggles and selection changes.
ReferentialIntegrity ==
  \A i \in 1..Len(world.edges) :
     /\ world.edges[i].fromId # world.edges[i].toId
     /\ world.edges[i].fromId \in NodeIds(world)
     /\ world.edges[i].toId \in NodeIds(world)

\* the node deleted by the step that has just been taken (Null: none)
DeletedNode ==
  CASE last'.op = "KeyDelete" -> selectedNodeId
    [] last'.op = "FormDelete" -> editingNodeId
    [] OTHER -> Null

\* what a step that deletes a node of the graph does
DeleteNodeEffect ==
  DeletedNode \in NodeIds(world) =>
     /\ world'.nodes = SelectSeq(world.nodes, LAMBDA n : n.id # DeletedNode)
     /\ world'.edges = SelectSeq(world.edges,
            LAMBDA e : e.fromId # DeletedNode /\ e.toId # DeletedNode)
     /\ Len(world'.nodes) = Len(world.nodes) - 1
     /\ DeletedNode \notin NodeIds(world')
     /\ \A i \in 1..Len(world'.edges) :
           world'.edges[i].fromId # DeletedNode /\ world'.edges[i].toId # DeletedNode

\* C2: a node deletion (Delete/Backspace, or Delete Node of the settings
\* form) is one step that removes exactly the node and exactly the edges
\* with that node at an end; all other nodes and edges stay, unchanged and in
\* order, and the node count drops by exactly one.
DeleteNodeFrame == [][DeleteNodeEffect]_vars

\* a node with two edges was deleted from the three-node project: the third
\* edge and the two other nodes are left
DeleteNodeDone ==
  /\ last.op \in {"KeyDelete", "FormDelete"}
  /\ Len(world.nodes) = 2
  /\ Len(world.edges) = 1
  /\ world.edges[1].fromId \in NodeIds(world) /\ world.edges[1].toId \in NodeIds(world)

\* some edge joins a and b, in either direction
Joined(w, a, b) ==
  \E i \in 1..Len(w.edges) : {w.edges[i].fromId, w.edges[i].toId} = {a, b}

\* a connect click on the source itself or on a node joined to it changes
\* neither the graph nor the history
ConnectRejectedEffect ==
  (/\ last'.op = "connectClick"
   /\ connectingFromId # Null
   /\ \/ last'.node = connectingFromId
      \/ Joined(world, connectingFromId, last'.node))
  => /\ world'.nodes = world.nodes
     /\ world'.edges = world.edges
     /\ undoStack' = undoStack
     /\ redoStack' = redoStack

\* C3: a connect click that would join two nodes already joined in either
\* direction, or a node with itself, adds no edge and leaves nodes, edges,
\* undo stack and redo stack as they were.
ConnectRejected == [][ConnectRejectedEffect]_vars

\* a connect click on a node already joined to the source was refused
ConnectDuplicateRefused ==
  /\ last.op = "connectClick"
  /\ last.out = "duplicate"
  /\ connectingFromId = Null

\* a commit made while HIST_LIMIT entries are held drops the oldest entry
\* and keeps the others, in order, below the new one
EvictOldest ==
  (last'.out \in CommitOuts /\ Len(undoStack) = HIST_LIMIT)
  => /\ Len(undoStack') = HIST_LIMIT
     /\ \A i \in 1..(HIST_LIMIT - 1) : undoStack'[i] = undoStack[i + 1]
     /\ GT(undoStack'[HIST_LIMIT]) = GT(world)

\* C6: the undo stack never holds more than HIST_LIMIT (100) entries under
\* any interleaving of commits, undos and redos, and a commit arriving at
\* 100 entries evicts the oldest and keeps the 100 most recent.
UndoStackBounded ==
  /\ [](Len(undoStack) <= HIST_LIMIT)
  /\ [][EvictOldest]_vars

\* the stack is full and the first entry ever pushed (the panned view) has
\* been evicted by a later commit
OldestEvicted ==
  /\ last.out \in CommitOuts
  /\ Len(undoStack) = HIST_LIMIT
  /\ undoStack[1].panX = Num(0)

\* C4: N undos followed directly by N redos restore the graph and the
\* transform that existed before the first undo, from the toolbar and from
\* the keyboard alike, whatever uncommitted changes came before.
UndoRedoRestores ==
  (ur.phase = "redo" /\ ur.n = 0) => GT(world) = ur.base

\* a committing step other than the end of a drag pushes the graph and
\* transform it started from
CommitHoldsPriorState ==
  (last'.out \in CommitOuts /\ last'.op # "onNodePointerUp")
  => /\ undoStack' # <<>>
     /\ GT(undoStack'[Len(undoStack')]) = GT(world)

\* C5: the entry pushed by a discrete committing action (placement,
\* connection, deletion, Save and Delete Node of the form, Reset View) is
\* the graph and transform as they stood immediately before the action.
CommitBeforeAction == [][CommitHoldsPriorState]_vars

\* C7: immediately after any committing action the redo stack is empty, so
\* a redo request then finds nothing to redo.
RedoClearedByCommit ==
  last.out \in CommitOuts => (redoStack = <<>> /\ ~ENABLED RedoButton)

\* a commit was made while the redo stack held entries
CommitAfterUndo ==
  /\ last.out = "commit-cleared-redo"
  /\ undoStack # <<>>

\* an undo shortcut with nothing to undo, a redo shortcut with nothing to
\* redo: nothing of the editor changes
NoopLeavesAll ==
  (\/ last'.op = "KeyUndo" /\ undoStack = <<>>
   \/ last'.op = "KeyRedo" /\ redoStack = <<>>)
  => UNCHANGED <<world, undoStack, redoStack, selectedNodeId, selectedEdgeId,
                 connectingFromId, renameOpen, editingNodeId>>

\* C8: undo with an empty undo stack and redo with an empty redo stack are
\* no-ops: world, both stacks, selection, connect source and settings form
\* are unchanged.
EmptyUndoRedoNoop == [][NoopLeavesAll]_vars

\* a shortcut was a no-op while a node was selected, a connect source was
\* set and the settings form was open
NoopWithSelection ==
  /\ last.op \in {"KeyUndo", "KeyRedo"}
  /\ last.out = "noop"
  /\ selectedNodeId # Null
  /\ connectingFromId # Null
  /\ renameOpen

\* the file of the pending import parses to a document of another version
ImportOfOtherVersion ==
  /\ importing # <<>>
  /\ importing[1].file[1].ok
  /\ importing[1].file[1].p.version # 1

\* such an import ends with the alert and writes nothing
ImportRejectedEffect ==
  (ImportOfOtherVersion /\ importing' = <<>>)
  => /\ last'.out = "Import failed."
     /\ UNCHANGED <<world, projectName, projectId, undoStack, redoStack, storage>>

\* C9: importing a parseable document whose version is not 1 is rejected
\* with a user-visible error and mutates nothing: world, project name and id,
\* history stacks and every stored document stay as they were.
ImportRejected == [][ImportRejectedEffect]_vars

\* a version-2 file was refused while a loaded project with history was open
ImportRefusedDone ==
  /\ last.op = "ImportResume"
  /\ last.out = "Import failed."
  /\ world.nodes # <<>>
  /\ undoStack # <<>>
  /\ storage.docs # <<>>

\* the stored text under name parses to a document of another version
StoredOtherVersion(name) ==
  /\ name # NoName
  /\ safeParse(lsGetProject(storage, name)) # <<>>
  /\ safeParse(lsGetProject(storage, name))[1].version # 1

\* opening such a document from the picker, or as the last-opened project at
\* start-up, reports a failure, lets no exception escape and changes nothing
OpenRejectedEffect ==
  /\ \A name \in Range(projectOptions) :
       (OpenProject(name) /\ StoredOtherVersion(name))
       => /\ last'.out = "Could not load project."
          /\ last'.err = ""
          /\ UNCHANGED <<world, projectName, undoStack, redoStack>>
  /\ (StartUp /\ StoredOtherVersion(storage.lastOpened))
       => /\ last'.err = ""
          /\ app' = "live"
          /\ UNCHANGED <<undoStack, redoStack>>

\* C10: opening a stored project whose document has a version other than 1
\* (from the project picker, or as the last-opened project at start-up)
\* aborts the load with a failure result, raises no uncaught exception and
\* leaves the in-memory world, project name and history unchanged.
OpenRejected == [][OpenRejectedEffect]_vars

\* the document stored for the last-opened project
LastOpenedDoc == safeParse(lsGetProject(storage, storage.lastOpened))[1]

\* the indices of the edges of p whose two ends are ids of nodes of p
SoundEdges(p) ==
  {i \in 1..Len(p.edges) :
     \E a, b \in 1..Len(p.nodes) :
        p.nodes[a].id = p.edges[i].fromId /\ p.nodes[b].id = p.edges[i].toId}

\* loading a version-1 document raises nothing and leaves exactly its sound
\* edges, in the order of the document
DanglingDroppedEffect ==
  StartUp =>
    LET p == LastOpenedDoc
        at(e) == CHOOSE k \in 1..Len(p.edges) : p.edges[k] = e
    IN  /\ last'.err = ""
        /\ app' = "live"
        /\ Len(world'.edges) = Cardinality(SoundEdges(p))
        /\ \A i \in 1..Len(world'.edges) :
              /\ world'.edges[i] \in Range(p.edges)
              /\ at(world'.edges[i]) \in SoundEdges(p)
              /\ world'.edges[i].fromId \in NodeIds(world')
              /\ world'.edges[i].toId \in NodeIds(world')
        /\ \A i \in 1..Len(world'.edges) : \A j \in (i + 1)..Len(world'.edges) :
              at(world'.edges[i]) < at(world'.edges[j])

\* C11: deserialize of a version-1 document yields exactly the document's
\* edges whose fromId and toId are both ids of nodes of the document, in
\* their original order; dropping a dangling edge raises no error and no
\* edge with both ends present is dropped.
DanglingEdgesDropped == [][DanglingDroppedEffect]_vars

\* a document with three edges was loaded: the dangling one in the middle
\* was dropped, the two sound ones around it were kept
DanglingEdgeDropped ==
  /\ last.op = "StartUp"
  /\ Len(LastOpenedDoc.edges) = 3
  /\ LastOpenedDoc.edges[2].toId = 103
  /\ Len(world.edges) = 2
  /\ world.edges[1] = LastOpenedDoc.edges[1]
  /\ world.edges[2] = LastOpenedDoc.edges[3]

\* C12: for every world state reachable through the editor,
\* deserialize(serialize(state)) has the same node sequence, the same edge
\* sequence and the same panX, panY and zoom as the state, and its mode is
\* idle with draggingNodeId null whatever the mode was.
RoundTripExact ==
  LET r == deserialize(serialize(Current, clock)).world
  IN  /\ r.nodes = world.nodes
      /\ r.edges = world.edges
      /\ r.panX = world.panX /\ r.panY = world.panY /\ r.zoom = world.zoom
      /\ r.mode = "idle"
      /\ r.draggingNodeId = Null

\* C13: in every reachable state world.zoom lies in [0.25, 2], whichever
\* operation wrote the transform last: the wheel, Reset View, undo, redo, or
\* the load or import of a document.
ZoomInRange == leq(ZOOM_MIN, world.zoom) /\ leq(world.zoom, ZOOM_MAX)

\* the world point under canvas point p: ((p.x - panX) / zoom, (p.y - panY) / zoom)
under(p, w) == <<div(sub(p[1], w.panX), w.zoom), div(sub(p[2], w.panY), w.zoom)>>

\* a wheel event at p leaves the world point under p where it was
AnchorEffect ==
  \A p \in WheelPoints, direction \in WheelDirs :
     onBgWheel(p, direction) => under(p, world') = under(p, world)

\* C14: every ctrl/cmd wheel event at cursor point P with transform T, the
\* events whose new zoom is clamped at 0.25 or 2 included, gives a transform
\* T' with (P.x - panX') / zoom' = (P.x - panX) / zoom, and likewise for y.
AnchorKept == [][AnchorEffect]_vars

\* a wheel event away from the origin of the world was clamped at the
\* largest zoom, and the pan moved with it
AnchorKeptWhenClamped ==
  /\ last.op = "onBgWheel"
  /\ last.out = "zoom-clamped"
  /\ world.zoom = ZOOM_MAX
  /\ world.panX.d > 1

\* the names whose stored document the step has written
WrittenNames ==
  {name \in DOMAIN storage'.docs :
     name \notin DOMAIN storage.docs \/ storage'.docs[name] # storage.docs[name]}

\* document p holds the nodes, the edges and the view of world w
SnapshotOf(p, w) ==
  /\ p.nodes = w.nodes
  /\ p.edges = w.edges
  /\ p.view = [panX |-> w.panX, panY |-> w.panY, zoom |-> w.zoom]

\* a document written by a step is a snapshot of the world held in memory
\* when the step began or when it ended
SnapshotCurrent ==
  \A name \in WrittenNames :
     LET p == storage'.docs[name][1].p
     IN  SnapshotOf(p, world) \/ SnapshotOf(p, world')

\* C15: the store never receives a snapshot of a world state that is not
\* the in-memory world state at the moment of the write: a change cancels
\* the pending debounced save and restarts its delay, and the other write
\* paths (New, Import, the first run) persist no older or intermediate state.
SavesCurrentWorld == [][SnapshotCurrent]_vars

\* a save made by New, by the first run or by Import goes under a name that
\* the project index does not list when the save is made
FreshNameEffect ==
  (last'.op = "TimerFire" \/ last'.out = "imported")
  => storage'.lastOpened \notin IndexNames(storage)

\* C16: the name under which New, the first-run default project or Import
\* saves a project is never the name of a project listed in the project
\* index at that moment, so none of them overwrites the stored document of
\* an existing project.
SavesUnderFreshName == [][FreshNameEffect]_vars

\* what a step of the editor without a store does: the persistence
\* operations leave the (absent) store alone, complete and set the state
\* they set with a store; loadProject returns false; placement, connection,
\* deletion, undo and redo compute the next graph from the current one
NoStoreEffect ==
  /\ storage' = NoStore
  /\ last'.op \in {"TimerFire", "AutosaveFire"} =>
        /\ last'.err = "" /\ last'.out = "saved"
        /\ lastSavedAt' = clock /\ ~saving'
        /\ world' = world
  /\ last'.op = "ImportResume" =>
        /\ last'.out = "imported"
        /\ lastSavedAt' = clock /\ projectName' = FilePair.meta.name
        /\ GT(world') = GT(deserialize(FilePair).world)
  /\ last'.op = "OpenProject" =>
        /\ last'.err = "" /\ last'.out = "Could not load project."
        /\ UNCHANGED <<world, projectName, projectId, lastSavedAt>>
  /\ (last'.op = "onBgPointerDown" /\ last'.out \in CommitOuts) =>
        /\ Len(world'.nodes) = Len(world.nodes) + 1
        /\ SubSeq(world'.nodes, 1, Len(world.nodes)) = world.nodes
        /\ world'.nodes[Len(world'.nodes)].id = nextUid
        /\ world'.edges = world.edges
  /\ (last'.op = "connectClick" /\ last'.out \in CommitOuts) =>
        /\ world'.edges = Append(world.edges,
              [id |-> nextUid, fromId |-> connectingFromId, toId |-> last'.node])
        /\ world'.nodes = world.nodes
  /\ DeleteNodeEffect
  /\ last'.out = "undo" =>
        /\ GT(world') = GT(undoStack[Len(undoStack)])
        /\ GT(redoStack'[Len(redoStack')]) = GT(world)
  /\ last'.out = "redo" =>
        /\ GT(world') = GT(redoStack[Len(redoStack)])
        /\ GT(undoStack'[Len(undoStack')]) = GT(world)

\* C17: without a persistent store (hasLS false) every persistence
\* operation (save, load, index update, last-opened pointer) writes nothing
\* and raises no error, loadProject reports failure, and node placement,
\* connection, deletion, undo and redo produce the world states they produce
\* with a store.
NoStoreNoops == [][NoStoreEffect]_vars

\* without a store, a project was imported and saved, and its two nodes
\* were then connected
NoStoreSaved ==
  /\ ~hasLS(storage)
  /\ lastSavedAt # NoTime
  /\ last.op = "connectClick" /\ last.out \in CommitOuts
  /\ Len(world.nodes) = 2 /\ Len(world.edges) = 1

\* an undo that directly follows a completed drag of a node
DragUndoEffect ==
  (/\ last.op = "onNodePointerUp" /\ last.out \in CommitOuts
   /\ last.drag.node # Null /\ last.drag.moves >= 1
   /\ last'.out = "undo")
  => PosOf(world', last.drag.node) = last.drag.at[1]

\* C18: after a completed node drag (pointer-down on a node, one or more
\* pointer-moves, pointer-up) a single undo puts the node back at the
\* position it had at pointer-down.
UndoOfDragRestores == [][DragUndoEffect]_vars

\* C19: after any undo or redo no gesture is in progress: the mode is not
\* drag-node, draggingNodeId is null, the connect source is none, the
\* selection is empty and the settings form is closed.
NoGestureAfterUndo ==
  last.out \in {"undo", "redo"} =>
     /\ world.mode # "drag-node"
     /\ world.draggingNodeId = Null
     /\ connectingFromId = Null
     /\ selectedNodeId = Null /\ selectedEdgeId = Null
     /\ ~renameOpen

\* C20: the editor is never in a state where a background pan is active and
\* the mode is drag-node.
PanExcludesNodeDrag == ~(draggingBg /\ world.mode = "drag-node")

\* what Escape does when the settings form is closed
EscapeEffect ==
  (last'.op = "KeyEscape" /\ ~renameOpen) =>
     /\ world'.mode = "idle"
     /\ selectedNodeId' = Null /\ selectedEdgeId' = Null
     /\ world'.draggingNodeId = Null
     /\ connectingFromId' = Null
     /\ ~draggingBg'
     /\ UNCHANGED <<undoStack, redoStack>>

\* C21: Escape pressed while the settings form is closed, from any mode,
\* leaves the editor with mode idle, an empty selection and no gesture data
\* (draggingNodeId null, connect source none, background pan inactive) and
\* pushes no history entry.
EscapeResets == [][EscapeEffect]_vars

\* C22: after a project is loaded or imported the selection is empty (no
\* selected node, no selected edge), no connect source is set and no gesture
\* is in progress, so no retained id refers to an element of the graph that
\* was open before.
LoadClearsSelection ==
  last.out \in {"loaded", "imported"} =>
     /\ selectedNodeId = Null /\ selectedEdgeId = Null
     /\ connectingFromId = Null
     /\ world.mode = "idle" /\ world.draggingNodeId = Null
     /\ ~draggingBg

\* what a step taken in add-node mode does
PlacingEffect ==
  world.mode = "add-node" =>
     /\ world'.mode # "add-node" =>
           \/ last'.op \in {"ToggleAddNode", "ToggleConnect"}
           \/ last'.op = "KeyEscape" /\ ~renameOpen
     /\ last'.op = "onBgPointerDown" =>
           /\ Len(world'.nodes) = Len(world.nodes) + 1
           /\ SubSeq(world'.nodes, 1, Len(world.nodes)) = world.nodes
           /\ world'.edges = world.edges

\* C23: once add-node mode is on it stays on across any number of canvas
\* placements and across any pointer interaction with existing nodes; each
\* primary pointer-down on empty canvas appends exactly one node, and the
\* mode changes only when a mode toggle is used or Escape is pressed with the
\* form closed.
PlacingStaysOn == [][PlacingEffect]_vars

\* what a pointer-down on a node does in connect mode, with S the connect
\* source and T the node
ConnectClickEffect ==
  (world.mode = "connect" /\ last'.op \in {"connectClick", "onNodePointerDown"}) =>
     LET S == connectingFromId
         T == last'.node
     IN  /\ world'.mode = "connect"
         /\ world'.draggingNodeId = world.draggingNodeId
         /\ world'.nodes = world.nodes
         /\ S = Null => (connectingFromId' = T /\ world'.edges = world.edges)
         /\ (S # Null /\ S # T) =>
               /\ connectingFromId' = Null
               /\ world'.edges =
                    IF Joined(world, S, T) THEN world.edges
                    ELSE Append(world.edges, [id |-> nextUid, fromId |-> S, toId |-> T])
         /\ (S # Null /\ S = T) => (connectingFromId' = Null /\ world'.edges = world.edges)

\* C24: in connect mode a pointer-down on a node never starts a drag, never
\* changes the mode and never moves a node: with no source the clicked node
\* becomes the source; with source S and a different node T the source is
\* reset to none and an edge S-T is added if none exists in either
\* direction; with source S and the same node S the source is reset to none
\* and no edge is added.
ConnectClicks == [][ConnectClickEffect]_vars

\* a second click on another node has added an edge, and connect mode is
\* still on with no source
ConnectClickAdded ==
  /\ last.op = "connectClick" /\ last.out \in CommitOuts
  /\ world.mode = "connect" /\ connectingFromId = Null
  /\ \E i \in 1..Len(world.edges) : world.edges[i].toId = last.node

\* what the steps of a node drag do to the history
DragCommitEffect ==
  /\ last'.op \in {"onNodePointerDown", "onNodePointerMove"} =>
        UNCHANGED <<undoStack, redoStack>>
  /\ last'.op = "onNodePointerUp" =>
        /\ Len(undoStack') = Len(undoStack) + 1
        /\ SubSeq(undoStack', 1, Len(undoStack)) = undoStack

\* C25: a completed node drag pushes exactly one entry onto the undo stack,
\* regardless of the number of pointer-move events between pointer-down and
\* pointer-up; pointer-move events themselves push none.
DragCommitsOnce == [][DragCommitEffect]_vars

\* a drag with two or more pointer-moves has ended and the undo stack, empty
\* before, holds one entry
DragOfTwoMovesDone ==
  /\ last.op = "onNodePointerUp"
  /\ last.drag.node # Null /\ last.drag.moves = MaxMoves
  /\ Len(undoStack) = 1 /\ redoStack = <<>>

\* transform: translate(panX, panY) scale(zoom), transformOrigin 0 0: the
\* canvas-relative screen point at which the world point (x, y) is drawn
toScreen(w, x, y) == <<add(mul(x, w.zoom), w.panX), add(mul(y, w.zoom), w.panY)>>

\* a placement at screen point p with snap off stores the node where it is
\* drawn at p
PlacedUnderPointerEffect ==
  \A p \in ClickPoints :
     (onBgPointerDown(p) /\ world.mode = "add-node" /\ ~snap) =>
        LET n == world'.nodes[Len(world'.nodes)]
        IN  toScreen(world', n.x, n.y) = p

\* C26: a node placed by a pointer-down at canvas-relative screen point P
\* with snap off is stored at the world point that the render transform
\* (translate by pan, then scale by zoom, origin top-left) maps back to P,
\* for every zoom in [0.25, 2]: stored x * zoom + panX = P.x and stored
\* y * zoom + panY = P.y.
PlacedUnderPointer == [][PlacedUnderPointerEffect]_vars

\* a pointer-move by the screen delta d moves the dragged node by d / zoom in
\* world coordinates
DragFollowsPointerEffect ==
  \A n \in NodeIds(world), d \in DragDeltas :
     onNodePointerMove(n, d) =>
        PosOf(world', n) = <<add(PosOf(world, n)[1], div(d[1], world.zoom)),
                             add(PosOf(world, n)[2], div(d[2], world.zoom))>>

\* C27: while a node is dragged at a zoom other than 1, each pointer-move
\* translates the node's world position by the screen-space pointer delta
\* divided by the current zoom, so the node stays under the pointer; at
\* zoom 1 the translation equals the delta.
DragFollowsPointer == [][DragFollowsPointerEffect]_vars

\* C28: in every reachable state, including right after a project is loaded
\* or imported, no edge is a self-loop (fromId = toId) and no two edges
\* connect the same unordered pair of nodes.
NoLoopsNoDuplicates ==
  /\ \A i \in 1..Len(world.edges) : world.edges[i].fromId # world.edges[i].toId
  /\ \A i, j \in 1..Len(world.edges) :
        i # j => {world.edges[i].fromId, world.edges[i].toId}
                   # {world.edges[j].fromId, world.edges[j].toId}

\* the step that has just been taken was addressed to a node or an edge that
\* is not in the graph
UnknownIdAddressed ==
  \/ last'.op = "KeyDelete" /\ selectedNodeId \notin NodeIds(world)
  \/ last'.op = "KeyDeleteEdge"
       /\ selectedEdgeId \notin {world.edges[i].id : i \in 1..Len(world.edges)}
  \/ last'.op \in {"FormSave", "FormDelete"}
       /\ editingNodeId # Null /\ editingNodeId \notin NodeIds(world)

UnknownIdEffect ==
  UnknownIdAddressed =>
     /\ world'.nodes = world.nodes /\ world'.edges = world.edges
     /\ UNCHANGED <<undoStack, redoStack>>

\* C29: an operation addressed to an id that is not in the graph (Save or
\* Delete Node in the settings form for a node already deleted,
\* Delete/Backspace with a selection that no longer exists in the graph) is
\* a no-op: the node list, the edge list, the undo stack and the redo stack
\* are all unchanged.
UnknownIdNoop == [][UnknownIdEffect]_vars

\* v is an integer multiple of the grid step
OnGrid(v) == v.d = 1 /\ v.n % gridSize = 0

\* what a placement and the pointer-up that ends a drag do to the position
SnapEffect ==
  /\ \A p \in SnapPoints :
        (onBgPointerDown(p) /\ world.mode = "add-node") =>
           LET n == world'.nodes[Len(world'.nodes)]
               at == screenToWorld(p[1], p[2])
           IN  IF snap THEN OnGrid(n.x) /\ OnGrid(n.y)
               ELSE n.x = at.x /\ n.y = at.y
  /\ \A n \in NodeIds(world) :
        onNodePointerUp(n) =>
           IF snap THEN OnGrid(PosOf(world', n)[1]) /\ OnGrid(PosOf(world', n)[2])
           ELSE PosOf(world', n) = PosOf(world, n)

\* C30: with snap enabled the x and y of a node are integer multiples of 40
\* immediately after it is placed and immediately after the pointer-up that
\* ends its drag; with snap disabled neither operation rounds the position.
SnapRounds == [][SnapEffect]_vars

\* with snap on, a drag of a node has ended on the grid away from the origin
SnappedAfterDrag ==
  /\ snap
  /\ last.op = "onNodePointerUp" /\ last.drag.node # Null /\ last.drag.moves >= 1
  /\ OnGrid(PosOf(world, last.node)[1]) /\ OnGrid(PosOf(world, last.node)[2])
  /\ PosOf(world, last.node) # <<Num(0), Num(0)>>

\* the documents of the store that parse, by name
DocsOf(st) ==
  IF hasLS(st)
    THEN [k \in {n \in DOMAIN st.docs : safeParse(st.docs[n]) # <<>>} |-> safeParse(st.docs[k])[1]]
    ELSE <<>>

\* a write over the stored snapshot of a project keeps its createdAt
CreatedAtEffect ==
  \A k \in DOMAIN DocsOf(storage) \cap DOMAIN DocsOf(storage') :
     DocsOf(storage')[k].meta.id = DocsOf(storage)[k].meta.id
       => DocsOf(storage')[k].meta.createdAt = DocsOf(storage)[k].meta.createdAt

\* C37: the createdAt recorded for a project never changes after the
\* project's first save: every later stored snapshot of the same project
\* (same name, same id) carries the same createdAt, and only updatedAt advances.
CreatedAtKept == [][CreatedAtEffect]_vars

\* the pointer-up of a click on node n: the pointer-down was the handler
\* before it, with no pointer-move in between
PlainClickEffect ==
  \A n \in NodeIds(world) :
     (onNodePointerUp(n) /\ last.op = "onNodePointerDown" /\ last.node = n
        /\ last.drag.moves = 0)
       => UNCHANGED <<undoStack, redoStack>>

\* C36: a pointer-down followed by a pointer-up on a node with no pointer
\* movement in between leaves the undo stack and the redo stack unchanged
\* (the pointer-down itself pushes nothing, see DragCommitEffect).
PlainClickKeepsHistory == [][PlainClickEffect]_vars

\* a key other than Escape and Enter typed while the settings form is open:
\* the keydown reaches the window listener
TypedIntoFormEffect ==
  (renameOpen /\ last'.op \in {"KeyDelete", "KeyDeleteEdge", "KeyG", "KeyUndo", "KeyRedo"})
    => /\ world'.nodes = world.nodes
       /\ world'.edges = world.edges
       /\ UNCHANGED <<snap, undoStack, redoStack>>

\* C35: while the settings form is open, Backspace, Delete, g, Ctrl/Cmd+Z
\* and Ctrl/Cmd+Y typed into it change neither the node list, the edge
\* list, the snap setting nor the history stacks.
TypingLeavesGraph == [][TypedIntoFormEffect]_vars

\* C34: after New, Open or Import the undo and redo stacks hold no entry of
\* the previously open project: the entries they held when the project was
\* replaced were all committed before, so both stacks are empty then.
HistoryOfOpenProject ==
  (last.op \in {"NewProject", "OpenProject", "ImportResume"}
     /\ last.out \in {"fresh", "loaded", "imported"})
    => undoStack = <<>> /\ redoStack = <<>>

\* the handler that has just run was an import or a load that failed: it
\* showed an alert, or deserialize threw
LoadFailed(l) ==
  /\ l.op \in {"ImportResume", "OpenProject"}
  /\ \/ l.out \in {"Invalid JSON", "Import failed.", "Could not load project.", "partial"}
     \/ l.op = "OpenProject" /\ l.err # ""

\* C32: whenever an import or a load ends in failure (user-visible error or
\* exception raised inside deserialize), the in-memory world is exactly what
\* it was before the attempt, also for a version-1 document that lacks meta,
\* nodes or edges.
FailedLoadKeepsWorld == [][LoadFailed(last') => world' = world]_vars

\* the document stored under the current project name holds the view, the
\* nodes and the edges of the current world, and nothing is being saved
Saved ==
  /\ hasLS(storage)
  /\ projectName \in DOMAIN DocsOf(storage)
  /\ LET p == DocsOf(storage)[projectName]
     IN  /\ p.nodes = world.nodes
         /\ p.edges = world.edges
         /\ p.view = [panX |-> world.panX, panY |-> world.panY, zoom |-> world.zoom]
  /\ ~saving

\* C31: after the last change to the world or the project name, if no
\* further change occurs and a store is available, the current world state
\* is eventually written to the store under the current project name and
\* the saving indicator returns to false, and this stays so: the save's own
\* state updates arm no further save.
SavedWhenQuiet ==
  /\ [][last'.op = "AutosaveFire" => (autosave' = <<>> /\ ~saving')]_vars
  /\ <>[][UNCHANGED <<world, projectName>>]_vars => <>[](Saved /\ autosave = <<>>)

\* the debounced save has written a view that was reset after the load
ResetViewSaved ==
  /\ last.op = "AutosaveFire"
  /\ Saved /\ autosave = <<>>
  /\ undoStack # <<>>
  /\ world.panX = Num(0)

\* the view stored for project "Tree" is the reset one
TreeViewReset ==
  /\ <<"Tree">> \in DOMAIN DocsOf(storage)
  /\ DocsOf(storage)[<<"Tree">>].view = [panX |-> Num(0), panY |-> Num(0), zoom |-> Num(1)]

\* C33: every change made to project P is eventually written to the store
\* under P's key, even when another project is opened, created or imported
\* before the debounced save has run: here P is "Tree", stored with a panned
\* view, and the change is Reset View.
ChangeReachesStore ==
  (projectName = <<"Tree">> /\ last.op = "ResetView") ~> TreeViewReset
====
